---------------------------- MODULE Spec2Model ----------------------------
(***************************************************************************)
(* A model of the nether-portal solver: the link validity predicate        *)
(* (PortalSolver.checkActualLink and the helpers of js/utils.js) and the   *)
(* two-stage simulated-annealing solver (PortalSolver.solve).              *)
(*                                                                         *)
(* Numbers.  Portal positions are integer vectors.  The probe points of    *)
(* the link predicate are not integers (pos + 0.5 +- entitySize / 2), so   *)
(* they are kept as exact fractions: a vector [x, y, z, d] stands for the  *)
(* point (x/d, y/d, z/d).  The entity size of a problem is given in        *)
(* hundredths of a block (85 is the 0.85 of the default input).  The code  *)
(* computes with doubles; for entity sizes in hundredths the floored       *)
(* values never lie within rounding distance of an integer boundary, so    *)
(* the exact fractions give the same blocks.                               *)
(*                                                                         *)
(* Randomness.  Every Math.random() draw is a nondeterministic choice;     *)
(* an operator that draws returns the SET of its possible outcomes.        *)
(***************************************************************************)
EXTENDS Integers, Sequences, FiniteSets, TLC

VARIABLES
    problem,              \* this.problem (portal records carry the pos field)
    pc,                   \* position of solve() in its code
    currentState,         \* this.currentState
    bestState,            \* this.bestState
    minCost,              \* this.minCost
    lastViolations,       \* this.lastLinkViolations / this.lastPosViolations
    attempt,              \* solve(): attempt
    iter,                 \* solve(): i (Stage 1) / iter (Stage 2)
    stage1Temp,           \* solve(): stage1Temp, as the number of coolings applied
    temperature,          \* solve(): temperature, as the number of coolings applied
    feasibleFound,        \* solve(): feasibleFound
    feasibleState,        \* solve(): feasibleState
    bestViolationState,   \* solve(): bestViolationState
    minViolationsFound,   \* solve(): minViolationsFound
    stage1CurrentState,   \* solve(): stage1CurrentState
    stage1CurrentCost,    \* solve(): stage1CurrentCost
    currentFullCost,      \* solve(): currentFullCost
    result,               \* the value solve() returns
    seen,                 \* history: what the run has done so far
    call                  \* the last direct call of a function under test

vars == <<problem, pc, currentState, bestState, minCost, lastViolations, attempt,
          iter, stage1Temp, temperature, feasibleFound, feasibleState,
          bestViolationState, minViolationsFound, stage1CurrentState,
          stage1CurrentCost, currentFullCost, result, seen, call>>

solverVars == <<pc, currentState, bestState, minCost, lastViolations, attempt,
                iter, stage1Temp, temperature, feasibleFound, feasibleState,
                bestViolationState, minViolationsFound, stage1CurrentState,
                stage1CurrentCost, currentFullCost, result, seen>>

-----------------------------------------------------------------------------
(* js/utils.js: vectors and constants *)

O_DIM == "O"
N_DIM == "N"

\* A scale factor is the fraction num/den.
O_SCALE == [num |-> 1, den |-> 8]
N_SCALE == [num |-> 8, den |-> 1]

O_SEARCH_RADIUS == 128
N_SEARCH_RADIUS == 16

\* (0.5, 0.0, 0.5) as a fraction vector over 200
ENTITY_DECIMAL_OFFSET == [x |-> 100, y |-> 0, z |-> 100, d |-> 200]

vec3(x, y, z) == [x |-> x, y |-> y, z |-> z]

copyVec3(v) == [x |-> v.x, y |-> v.y, z |-> v.z]

addVec3(v1, v2) == [x |-> v1.x + v2.x, y |-> v1.y + v2.y, z |-> v1.z + v2.z]

\* addVec3 of an integer vector and a fraction vector: the sum over v2's denominator
addVec3Frac(v1, v2) ==
    [x |-> v1.x * v2.d + v2.x, y |-> v1.y * v2.d + v2.y, z |-> v1.z * v2.d + v2.z,
     d |-> v2.d]

\* Each coordinate rounded toward zero instead of toward minus infinity.
truncVec3(v) ==
    [x |-> IF v.x >= 0 THEN v.x \div v.d ELSE - ((- v.x) \div v.d),
     y |-> IF v.y >= 0 THEN v.y \div v.d ELSE - ((- v.y) \div v.d),
     z |-> IF v.z >= 0 THEN v.z \div v.d ELSE - ((- v.z) \div v.d)]

\* Math.floor of each coordinate (\div rounds toward minus infinity)
floorVec3(v) == [x |-> v.x \div v.d, y |-> v.y \div v.d, z |-> v.z \div v.d]

\* x and z times scale, y unchanged: x*num/(d*den), y*den/(d*den), z*num/(d*den)
scaleVec3XZ(v, scale) ==
    [x |-> v.x * scale.num, y |-> v.y * scale.den, z |-> v.z * scale.num,
     d |-> v.d * scale.den]

distSq(p1, p2) ==
    LET dx == p1.x - p2.x
        dy == p1.y - p2.y
        dz == p1.z - p2.z
    IN  dx * dx + dy * dy + dz * dz

getCoordScale(destinationDimension) ==
    IF destinationDimension = N_DIM THEN O_SCALE ELSE N_SCALE

getSearchRadius(dimension) ==
    IF dimension = N_DIM THEN N_SEARCH_RADIUS ELSE O_SEARCH_RADIUS

Abs(n) == IF n < 0 THEN -n ELSE n

\* The probe points with the spread along the facing axis instead of across it.
getEntityTestPositionsAlongFacing(portalPosInt, facing, entityWidth) ==
    LET center == [x |-> portalPosInt.x * 200 + 100, y |-> portalPosInt.y * 200,
                   z |-> portalPosInt.z * 200 + 100, d |-> 200]
    IN  IF facing = "X"
        THEN << center,
                [center EXCEPT !.x = center.x + entityWidth],
                [center EXCEPT !.x = center.x - entityWidth] >>
        ELSE << center,
                [center EXCEPT !.z = center.z + entityWidth],
                [center EXCEPT !.z = center.z - entityWidth] >>

\* The three probe points, in the order the code tests them.  entityWidth is in
\* hundredths of a block, so entityWidth / 2.0 is entityWidth over 200.
getEntityTestPositions(portalPosInt, facing, entityWidth) ==
    LET center == addVec3Frac(portalPosInt, ENTITY_DECIMAL_OFFSET)
        halfWidth == entityWidth
    IN  IF facing = "X"
        THEN << center,
                [center EXCEPT !.z = center.z + halfWidth],
                [center EXCEPT !.z = center.z - halfWidth] >>
        ELSE << center,
                [center EXCEPT !.x = center.x + halfWidth],
                [center EXCEPT !.x = center.x - halfWidth] >>

-----------------------------------------------------------------------------
(* States.  A state is a JS object { name: {x, y, z} }: `keys` is the order  *)
(* in which "for (name in state)" visits it (insertion order), `at` the      *)
(* positions.                                                                *)

EmptyState == [keys |-> <<>>, at |-> <<>>]

Range(s) == {s[k] : k \in DOMAIN s}

copyState(state) ==
    [keys |-> state.keys, at |-> [n \in DOMAIN state.at |-> copyVec3(state.at[n])]]

\* newState[name] = pos  (a new key is appended, an existing one keeps its place)
SetPos(state, name, pos) ==
    IF name \in DOMAIN state.at
    THEN [state EXCEPT !.at[name] = pos]
    ELSE [keys |-> Append(state.keys, name),
          at |-> [n \in DOMAIN state.at \cup {name} |->
                     IF n = name THEN pos ELSE state.at[n]]]


-----------------------------------------------------------------------------
(* PortalSolver.satisfiesPositionConstraints *)

\* The bounds of a region are the numbers of its POS line, which need not be
\* integers: a region holds them as multiples of 1/den (min.x / den, ...).
InBox(pos, box) ==
    /\ pos.x * box.den >= box.min.x /\ pos.x * box.den <= box.max.x
    /\ pos.y * box.den >= box.min.y /\ pos.y * box.den <= box.max.y
    /\ pos.z * box.den >= box.min.z /\ pos.z * box.den <= box.max.z

\* A plausible slip: the exclusive regions are not looked at.
satisfiesPositionConstraintsNoExclusive(portal, pos) ==
    \E k \in DOMAIN portal.constraints.inclusive : InBox(pos, portal.constraints.inclusive[k])

satisfiesPositionConstraints(portal, pos) ==
    /\ \E k \in DOMAIN portal.constraints.inclusive :
           InBox(pos, portal.constraints.inclusive[k])
    /\ ~ \E k \in DOMAIN portal.constraints.exclusive :
           InBox(pos, portal.constraints.exclusive[k])

-----------------------------------------------------------------------------
(* PortalSolver.checkActualLink *)

NoPortal == "null"

\* Pd = scaleVec3XZ(entityPos, coordScale); Bd = floorVec3(Pd)
TargetBlock(entityPos, coordScale) == floorVec3(scaleVec3XZ(entityPos, coordScale))

\* The test of the square search area, with < for <= (an off-by-one slip).
InSearchAreaStrict(C, Bd, searchRadius) ==
    Abs(C.x - Bd.x) < searchRadius /\ Abs(C.z - Bd.z) < searchRadius

InSearchArea(C, Bd, searchRadius) ==
    Abs(C.x - Bd.x) <= searchRadius /\ Abs(C.z - Bd.z) <= searchRadius

\* potentialTargets without the test of the dimension.
potentialTargetsAnyDimension(prob, destDim, Bd, searchRadius, state) ==
    SelectSeq(state.keys, LAMBDA name : InSearchArea(state.at[name], Bd, searchRadius))

\* The names pushed on potentialTargets, in the order of "for (name in currentState)"
potentialTargets(prob, destDim, Bd, searchRadius, state) ==
    SelectSeq(state.keys,
              LAMBDA name : /\ prob.portals[name].dim = destDim
                            /\ InSearchArea(state.at[name], Bd, searchRadius))

\* closestPortalName = null, minDistanceSq = Infinity, minY = Infinity
ClosestStart == [closestPortalName |-> NoPortal, inf |-> TRUE, minDistanceSq |-> 0, minY |-> 0]

\* The loop body with the tie-break reversed (higher Y wins).
ClosestStepHigherY(acc, name, pos, Bd) ==
    LET distSqVal == distSq(Bd, pos)
    IN  IF acc.inf \/ distSqVal < acc.minDistanceSq
        THEN [closestPortalName |-> name, inf |-> FALSE,
              minDistanceSq |-> distSqVal, minY |-> pos.y]
        ELSE IF distSqVal = acc.minDistanceSq /\ pos.y > acc.minY
        THEN [acc EXCEPT !.minY = pos.y, !.closestPortalName = name]
        ELSE acc

\* One pass of the loop "for (const target of potentialTargets)"
ClosestStep(acc, name, pos, Bd) ==
    LET distSqVal == distSq(Bd, pos)
    IN  IF acc.inf \/ distSqVal < acc.minDistanceSq
        THEN [closestPortalName |-> name, inf |-> FALSE,
              minDistanceSq |-> distSqVal, minY |-> pos.y]
        ELSE IF distSqVal = acc.minDistanceSq /\ pos.y < acc.minY
        THEN [acc EXCEPT !.minY = pos.y, !.closestPortalName = name]
        ELSE acc

RECURSIVE ClosestFrom(_, _, _, _, _)
ClosestFrom(targets, state, Bd, k, acc) ==
    IF k > Len(targets)
    THEN acc
    ELSE ClosestFrom(targets, state, Bd, k + 1,
                     ClosestStep(acc, targets[k], state.at[targets[k]], Bd))

\* closestPortalName after the loop over potentialTargets
closestPortal(targets, state, Bd) ==
    ClosestFrom(targets, state, Bd, 1, ClosestStart).closestPortalName

\* What the code computes for one entity position: the target block, the
\* potential targets and the closest one.
ProbeOutcome(prob, expectedDestPortalName, entityPos, state) ==
    LET destDim == prob.portals[expectedDestPortalName].dim
        Bd == TargetBlock(entityPos, getCoordScale(destDim))
        targets == potentialTargets(prob, destDim, Bd, getSearchRadius(destDim), state)
    IN  [Bd |-> Bd, targets |-> targets,
         closest |-> IF Len(targets) = 0 THEN NoPortal ELSE closestPortal(targets, state, Bd)]

\* The loop over the test positions with only its first pass (the centre) kept.
RECURSIVE CheckProbesFromCenterOnly(_, _, _, _, _)
CheckProbesFromCenterOnly(prob, expectedDestPortalName, testPositions, state, k) ==
    IF k > 1
    THEN TRUE
    ELSE LET o == ProbeOutcome(prob, expectedDestPortalName, testPositions[k], state)
         IN  IF Len(o.targets) = 0 THEN FALSE
             ELSE IF o.closest # expectedDestPortalName THEN FALSE
             ELSE CheckProbesFromCenterOnly(prob, expectedDestPortalName, testPositions,
                                            state, k + 1)

\* "for (const entityPos of testPositions)" from its k-th pass on
RECURSIVE CheckProbesFrom(_, _, _, _, _)
CheckProbesFrom(prob, expectedDestPortalName, testPositions, state, k) ==
    IF k > Len(testPositions)
    THEN TRUE
    ELSE LET o == ProbeOutcome(prob, expectedDestPortalName, testPositions[k], state)
         IN  IF Len(o.targets) = 0 THEN FALSE
             ELSE IF o.closest # expectedDestPortalName THEN FALSE
             ELSE CheckProbesFrom(prob, expectedDestPortalName, testPositions, state, k + 1)

checkActualLink(prob, sourcePortalName, expectedDestPortalName, state) ==
    LET sourcePortal == prob.portals[sourcePortalName]
        sourcePos == state.at[sourcePortalName]
        testPositions == getEntityTestPositions(sourcePos, sourcePortal.face, prob.entitySize)
    IN  CheckProbesFrom(prob, expectedDestPortalName, testPositions, state, 1)

-----------------------------------------------------------------------------
(* Random draws *)

\* randomInt(min, max): every integer of min..max can be drawn
randomInt(min, max) == min .. max

\* The least integer not below a / d
CeilDiv(a, d) == - ((- a) \div d)

\* randomInt(min / den, max / den) = floor(Math.random() * (max - min + 1)) + min
\* for an integer min / den: Math.random() is in [0, 1), so the floor is any
\* integer from 0 up to the least integer not below max - min.  With an integer
\* max this is min..max; with a max that is not an integer the draw can exceed it.
randomIntOver(min, max, den) == {min \div den + k : k \in 0 .. CeilDiv(max - min, den)}

\* vec3(randomInt(min.x, max.x), randomInt(min.y, max.y), randomInt(min.z, max.z))
RandomPosIn(box) ==
    {vec3(x, y, z) : x \in randomIntOver(box.min.x, box.max.x, box.den),
                     y \in randomIntOver(box.min.y, box.max.y, box.den),
                     z \in randomIntOver(box.min.z, box.max.z, box.den)}

\* A position drawn in a randomly picked inclusive constraint of the portal
RandomInclusivePos(portal) ==
    UNION {RandomPosIn(portal.constraints.inclusive[k]) :
               k \in randomInt(1, Len(portal.constraints.inclusive))}

\* A retry loop of n passes: each pass draws; a draw of `good` ends the loop with
\* that value, any other draw goes to the next pass; after the last pass the
\* loop falls through to `otherwise`.  With n >= 1 passes the loop ends with
\* any good value, or, when a pass can miss, with all n passes missing.
RetryLoop(n, good, canMiss, otherwise) ==
    IF n = 0
    THEN otherwise
    ELSE good \cup (IF canMiss THEN otherwise ELSE {})

-----------------------------------------------------------------------------
(* PortalSolver.initializeState *)

InitAttempts == 100

NotFound == [found |-> FALSE, pos |-> vec3(0, 0, 0)]

\* The inner loop without the call of satisfiesPositionConstraints.
InitPortalUnchecked(portal) ==
    {[found |-> TRUE, pos |-> pos] : pos \in RandomInclusivePos(portal)}

\* The inner loop for one portal: the position found, or foundPos = false
InitPortal(portal) ==
    LET draws == RandomInclusivePos(portal)
        good == {pos \in draws : satisfiesPositionConstraints(portal, pos)}
    IN  RetryLoop(InitAttempts,
                  {[found |-> TRUE, pos |-> pos] : pos \in good},
                  good # draws,
                  {NotFound})

\* "for (const name of this.portalNames)" from its k-th name on.  An outcome is
\* [ok |-> the value returned, state |-> the local initialState at the return].
RECURSIVE InitFrom(_, _, _)
InitFrom(prob, k, initialState) ==
    IF k > Len(prob.portalNames)
    THEN {[ok |-> TRUE, state |-> initialState]}
    ELSE LET name == prob.portalNames[k]
         IN  UNION {IF o.found
                    THEN InitFrom(prob, k + 1, SetPos(initialState, name, o.pos))
                    ELSE {[ok |-> FALSE, state |-> initialState]} :
                    o \in InitPortal(prob.portals[name])}

initializeState(prob) == InitFrom(prob, 1, EmptyState)

-----------------------------------------------------------------------------
(* PortalSolver.generateNeighbor *)

JumpAttempts == 10
MoveAttempts == 50
moveRange == 3

NoNeighbor == [ok |-> FALSE, state |-> EmptyState]

InAnyExclusive(portal, pos) ==
    \E k \in DOMAIN portal.constraints.exclusive : InBox(pos, portal.constraints.exclusive[k])

InAnyInclusive(portal, pos) ==
    \E k \in DOMAIN portal.constraints.inclusive : InBox(pos, portal.constraints.inclusive[k])

\* The small random move of the chosen portal: the new state, or null
SmallMove(newState, portalName, portal) ==
    LET currentPos == newState.at[portalName]
        moves == {vec3(x, y, z) : x \in randomInt(-moveRange, moveRange),
                                  y \in randomInt(-moveRange, moveRange),
                                  z \in randomInt(-moveRange, moveRange)}
        good == {move \in moves :
                    /\ ~ (move.x = 0 /\ move.y = 0 /\ move.z = 0)
                    /\ InAnyInclusive(portal, addVec3(currentPos, move))
                    /\ ~ InAnyExclusive(portal, addVec3(currentPos, move))}
    IN  RetryLoop(MoveAttempts,
                  {[ok |-> TRUE, state |-> SetPos(newState, portalName, addVec3(currentPos, move))] :
                       move \in good},
                  good # moves,
                  {NoNeighbor})

\* The large jump of the chosen portal; after its attempts it falls through to
\* the small move.
LargeJump(newState, portalName, portal) ==
    IF Len(portal.constraints.inclusive) = 0
    THEN SmallMove(newState, portalName, portal)
    ELSE LET draws == RandomInclusivePos(portal)
             good == {randomPos \in draws : ~ InAnyExclusive(portal, randomPos)}
         IN  RetryLoop(JumpAttempts,
                       {[ok |-> TRUE, state |-> SetPos(newState, portalName, randomPos)] :
                            randomPos \in good},
                       good # draws,
                       SmallMove(newState, portalName, portal))

\* The outcomes of generateNeighbor once the portal is picked
NeighborOf(prob, state, isStage1, portalName) ==
    LET newState == copyState(state)
        portal == prob.portals[portalName]
    IN  (IF isStage1 THEN LargeJump(newState, portalName, portal) ELSE {})
        \cup SmallMove(newState, portalName, portal)

\* An outcome is [ok |-> FALSE] for null, else [ok |-> TRUE, state |-> newState].
generateNeighbor(prob, state, isStage1) ==
    UNION {NeighborOf(prob, state, isStage1, prob.portalNames[k]) :
               k \in randomInt(1, Len(prob.portalNames))}

-----------------------------------------------------------------------------
(* Optimization distances (js/utils.js) *)

\* An integer vector as a fraction vector over 1, and back
AsFrac(v) == [x |-> v.x, y |-> v.y, z |-> v.z, d |-> 1]

\* The conversion with y scaled as well.
convertToOverworldScalesY(pos, sourceDimension) ==
    IF sourceDimension = O_DIM
    THEN copyVec3(pos)
    ELSE vec3(pos.x * 8, pos.y * 8, pos.z * 8)

convertToOverworld(pos, sourceDimension) ==
    IF sourceDimension = O_DIM
    THEN copyVec3(pos)
    ELSE floorVec3(scaleVec3XZ(AsFrac(pos), N_SCALE))   \* times 8: already integral

calculateOptimizationDistanceSq(portal1, portal2, portalData) ==
    LET pos1_O == convertToOverworld(portalData[portal1].pos, portalData[portal1].dim)
        pos2_O == convertToOverworld(portalData[portal2].pos, portalData[portal2].dim)
    IN  distSq(pos1_O, pos2_O)

calculateOptimizationDistancePosSq(portal1, targetPosO, portalData) ==
    LET pos1_O == convertToOverworld(portalData[portal1].pos, portalData[portal1].dim)
    IN  distSq(pos1_O, targetPosO)

\* { ...this.problem.portals[name], pos: state[name] } for every portal
PortalData(prob, state) ==
    [name \in DOMAIN prob.portals |-> [prob.portals[name] EXCEPT !.pos = state.at[name]]]

PairDistSq(pair, portalData) ==
    IF pair.type = "portal"
    THEN calculateOptimizationDistanceSq(pair.p1, pair.p2, portalData)
    ELSE IF pair.type = "position"
    THEN calculateOptimizationDistancePosSq(pair.p1, pair.target, portalData)
    ELSE 0

\* The sum of the goals' squared distances with the weights left out.
RECURSIVE SumUnweighted(_, _, _)
SumUnweighted(pairs, portalData, k) ==
    IF k > Len(pairs)
    THEN 0
    ELSE PairDistSq(pairs[k], portalData) + SumUnweighted(pairs, portalData, k + 1)

RECURSIVE SumWeighted(_, _, _)
SumWeighted(pairs, portalData, k) ==
    IF k > Len(pairs)
    THEN 0
    ELSE PairDistSq(pairs[k], portalData) * pairs[k].weight + SumWeighted(pairs, portalData, k + 1)

-----------------------------------------------------------------------------
(* PortalSolver.calculateCost *)
(* A cost is the number hi * 10^10 + lo, kept as the pair [hi, lo] because    *)
(* 10^10 (the link penalty of the full cost) is beyond the model checker's    *)
(* integers; lo stays below 10^10, so comparing pairs compares the numbers.   *)

posPenalty == 10000000

Cost(hi, lo) == [hi |-> hi, lo |-> lo]

Infinity == [hi |-> -1, lo |-> 0]   \* above every cost

CostLess(a, b) ==
    IF a = Infinity THEN FALSE
    ELSE IF b = Infinity THEN TRUE
    ELSE a.hi < b.hi \/ (a.hi = b.hi /\ a.lo < b.lo)

CostZero == Cost(0, 0)

ViolatedLinks(prob, state) ==
    SelectSeq(prob.desiredLinks, LAMBDA link : ~ checkActualLink(prob, link.source, link.dest, state))

ViolatedPositions(prob, state) ==
    SelectSeq(state.keys,
              LAMBDA name : ~ satisfiesPositionConstraints(prob.portals[name], state.at[name]))

\* calculateCost with the optimization term added whatever the multiplier is.
calculateCostAlwaysOptimizes(prob, state, optimizationWeightMultiplier) ==
    LET linkViolations == Len(ViolatedLinks(prob, state))
        posViolations == Len(ViolatedPositions(prob, state))
        opt == SumWeighted(prob.optimizationPairs, PortalData(prob, state), 1)
    IN  [cost |-> IF optimizationWeightMultiplier > 0
                  THEN Cost(linkViolations, posViolations * posPenalty + opt)
                  ELSE Cost(0, linkViolations + posViolations * posPenalty + opt),
         linkViolations |-> linkViolations,
         posViolations |-> posViolations]

\* [cost, linkViolations, posViolations]: the value returned and the two counts
\* stored in this.lastLinkViolations and this.lastPosViolations
calculateCost(prob, state, optimizationWeightMultiplier) ==
    LET linkViolations == Len(ViolatedLinks(prob, state))
        posViolations == Len(ViolatedPositions(prob, state))
        opt == IF optimizationWeightMultiplier > 0
               THEN SumWeighted(prob.optimizationPairs, PortalData(prob, state), 1)
                        * optimizationWeightMultiplier
               ELSE 0
    IN  [cost |-> IF optimizationWeightMultiplier > 0
                  THEN Cost(linkViolations, posViolations * posPenalty + opt)
                  ELSE Cost(0, linkViolations + posViolations * posPenalty),
         linkViolations |-> linkViolations,
         posViolations |-> posViolations]

Last(c) == [link |-> c.linkViolations, pos |-> c.posViolations]

-----------------------------------------------------------------------------
(* PortalSolver.calculateAllLinkDistances and PortalSolver.verifySolution *)

\* The entries of linkDistances when only the desired links are reported.
calculateLinkDistancesOfDesiredLinks(prob, state) ==
    {[p1 |-> prob.desiredLinks[k].source, p2 |-> prob.desiredLinks[k].dest,
      Bd |-> TargetBlock(addVec3Frac(state.at[prob.desiredLinks[k].source],
                                     ENTITY_DECIMAL_OFFSET),
                         getCoordScale(prob.portals[prob.desiredLinks[k].dest].dim)),
      DestPos |-> state.at[prob.desiredLinks[k].dest],
      distSq |-> distSq(TargetBlock(addVec3Frac(state.at[prob.desiredLinks[k].source],
                                                ENTITY_DECIMAL_OFFSET),
                                    getCoordScale(prob.portals[prob.desiredLinks[k].dest].dim)),
                        state.at[prob.desiredLinks[k].dest])] :
        k \in DOMAIN prob.desiredLinks}

\* The entries of linkDistances: one for each ordered pair <<p1, p2>> the loops keep
calculateAllLinkDistances(prob, state) ==
    LET portalNames == state.keys
        kept == {ij \in (DOMAIN portalNames) \X (DOMAIN portalNames) :
                    /\ ij[1] # ij[2]
                    /\ prob.portals[portalNames[ij[1]]].dim # prob.portals[portalNames[ij[2]]].dim}
    IN  {[p1 |-> portalNames[ij[1]], p2 |-> portalNames[ij[2]],
          Bd |-> TargetBlock(addVec3Frac(state.at[portalNames[ij[1]]], ENTITY_DECIMAL_OFFSET),
                             getCoordScale(prob.portals[portalNames[ij[2]]].dim)),
          DestPos |-> state.at[portalNames[ij[2]]],
          distSq |-> distSq(TargetBlock(addVec3Frac(state.at[portalNames[ij[1]]],
                                                    ENTITY_DECIMAL_OFFSET),
                                        getCoordScale(prob.portals[portalNames[ij[2]]].dim)),
                            state.at[portalNames[ij[2]]])] : ij \in kept}

NoResult ==
    [returned |-> FALSE, solutionIsNull |-> TRUE, solution |-> EmptyState, success |-> FALSE,
     message |-> "", minViolations |-> 0, hasLists |-> FALSE,
     violatedLinks |-> <<>>, violatedPositions |-> <<>>,
     optimizationDistances |-> <<>>, linkDistances |-> {}]

\* verifySolution with the check of the links left out.
verifySolutionPositionsOnly(prob, state) ==
    LET violatedPositions == ViolatedPositions(prob, state)
        finalPortalData == PortalData(prob, state)
    IN  [returned |-> TRUE, solutionIsNull |-> FALSE, solution |-> state,
         success |-> Len(violatedPositions) = 0,
         message |-> IF Len(violatedPositions) = 0 THEN "Solution found."
                     ELSE "Constraints violated. Best attempt shown.",
         minViolations |-> 0, hasLists |-> TRUE,
         violatedLinks |-> <<>>,
         violatedPositions |-> violatedPositions,
         optimizationDistances |->
             [k \in DOMAIN prob.optimizationPairs |->
                 [squared |-> PairDistSq(prob.optimizationPairs[k], finalPortalData),
                  weight |-> prob.optimizationPairs[k].weight]],
         linkDistances |-> calculateAllLinkDistances(prob, state)]

verifySolution(prob, state) ==
    LET violatedPositions == ViolatedPositions(prob, state)
        violatedLinks == ViolatedLinks(prob, state)
        success == Len(violatedPositions) = 0 /\ Len(violatedLinks) = 0
        finalPortalData == PortalData(prob, state)
    IN  [returned |-> TRUE, solutionIsNull |-> FALSE, solution |-> state,
         success |-> success,
         message |-> IF success THEN "Solution found."
                     ELSE "Constraints violated. Best attempt shown.",
         minViolations |-> 0, hasLists |-> TRUE,
         violatedLinks |-> violatedLinks,
         violatedPositions |-> violatedPositions,
         optimizationDistances |->
             [k \in DOMAIN prob.optimizationPairs |->
                 [squared |-> PairDistSq(prob.optimizationPairs[k], finalPortalData),
                  weight |-> prob.optimizationPairs[k].weight]],
         linkDistances |-> calculateAllLinkDistances(prob, state)]

-----------------------------------------------------------------------------
(* Problems, as parseProblem builds them *)

\* The constraint of a POS line with integer bounds
Box(minX, minY, minZ, maxX, maxY, maxZ) ==
    [min |-> vec3(minX, minY, minZ), max |-> vec3(maxX, maxY, maxZ), den |-> 1]

\* The constraint of a POS line whose bounds are the given numbers over den;
\* the lower bounds are integers (multiples of den)
BoxOver(den, minX, minY, minZ, maxX, maxY, maxZ) ==
    [min |-> vec3(minX, minY, minZ), max |-> vec3(maxX, maxY, maxZ), den |-> den]

\* The record of a PORTAL line, with its POS lines
Portal(name, dim, face, inclusive, exclusive) ==
    [name |-> name, dim |-> dim, face |-> face, pos |-> vec3(0, 0, 0),
     constraints |-> [inclusive |-> inclusive, exclusive |-> exclusive]]

Link(source, dest) == [source |-> source, dest |-> dest]

OptimizePair(p1, p2, weight) ==
    [type |-> "portal", p1 |-> p1, p2 |-> p2, target |-> vec3(0, 0, 0), weight |-> weight]

OptimizePos(p1, target, weight) ==
    [type |-> "position", p1 |-> p1, p2 |-> "", target |-> target, weight |-> weight]

\* ENTITY_SIZE 0.85
\* PORTAL O1 O X / POS O1 INC 0 60 0 2 60 0 / POS O1 EXC 1 60 0 1 60 0
\* PORTAL N1 N X / POS N1 INC 0 60 0 1 61 0
\* PORTAL N2 N Z / POS N2 INC 0 60 0 0 60 0 / POS N2 INC 20 60 0 20 60 0
\* LINK O1 N2 / LINK N2 O1
\* OPTIMIZE_POS O1 2 60 0 1 / OPTIMIZE O1 N1 2
\* O1 -> N2 holds when N2 is at x = 0 and N1 is not at (0,60,0); N2 -> O1 holds
\* when N2 is at x = 0: the states have 0, 1 or 2 violated links.
HubProblem ==
    [entitySize |-> 85,
     portalNames |-> <<"O1", "N1", "N2">>,
     portals |-> [n \in {"O1", "N1", "N2"} |->
         CASE n = "O1" -> Portal("O1", O_DIM, "X", <<Box(0, 60, 0, 2, 60, 0)>>,
                                 <<Box(1, 60, 0, 1, 60, 0)>>)
           [] n = "N1" -> Portal("N1", N_DIM, "X", <<Box(0, 60, 0, 1, 61, 0)>>, <<>>)
           [] n = "N2" -> Portal("N2", N_DIM, "Z", <<Box(0, 60, 0, 0, 60, 0),
                                                     Box(20, 60, 0, 20, 60, 0)>>, <<>>)],
     desiredLinks |-> <<Link("O1", "N2"), Link("N2", "O1")>>,
     optimizationPairs |-> <<OptimizePos("O1", vec3(2, 60, 0), 1), OptimizePair("O1", "N1", 2)>>]

\* PORTAL A O X / POS A INC 0 60 0 0 60 0 / POS A EXC 0 60 0 0 60 0
\* PORTAL B N X / POS B INC 0 60 0 0 60 0 / LINK A B
\* The only position of A's inclusive region is excluded: A has no valid position.
BlockedProblem ==
    [entitySize |-> 100,
     portalNames |-> <<"A", "B">>,
     portals |-> [n \in {"A", "B"} |->
         IF n = "A" THEN Portal("A", O_DIM, "X", <<Box(0, 60, 0, 0, 60, 0)>>,
                                <<Box(0, 60, 0, 0, 60, 0)>>)
                    ELSE Portal("B", N_DIM, "X", <<Box(0, 60, 0, 0, 60, 0)>>, <<>>)],
     desiredLinks |-> <<Link("A", "B")>>,
     optimizationPairs |-> <<>>]

\* PORTAL A O X / POS A INC 0 60 0 0.5 60 0
\* PORTAL B N X / POS B INC 0 60 0 0 60 0 / POS B INC 20 60 0 20 60 0 / LINK A B
\* The upper x bound of A's region is not an integer: its only position is
\* x = 0.  The link holds when B is at x = 0.
HalfProblem ==
    [entitySize |-> 100,
     portalNames |-> <<"A", "B">>,
     portals |-> [n \in {"A", "B"} |->
         IF n = "A" THEN Portal("A", O_DIM, "X", <<BoxOver(2, 0, 120, 0, 1, 120, 0)>>, <<>>)
                    ELSE Portal("B", N_DIM, "X", <<Box(0, 60, 0, 0, 60, 0),
                                                    Box(20, 60, 0, 20, 60, 0)>>, <<>>)],
     desiredLinks |-> <<Link("A", "B")>>,
     optimizationPairs |-> <<>>]

SolverProblems == {HubProblem, BlockedProblem, HalfProblem}

\* this.problem.portals[name].pos = state[name] for every name of the state
WithPositions(prob, state) ==
    [prob EXCEPT !.portals = [n \in DOMAIN prob.portals |->
        IF n \in DOMAIN state.at
        THEN [prob.portals[n] EXCEPT !.pos = state.at[n]]
        ELSE prob.portals[n]]]

-----------------------------------------------------------------------------
(* PortalSolver: the constructor *)

stage1MaxAttempts == 3

\* The iteration budgets and the numbers of coolings after which the
\* temperature is below absoluteTemperature, scaled down from the code's
\* 70000 and 30000 iterations and 5500 and 3216 coolings.
Stage1Iterations == 3
Stage1FloorSteps == 2
Stage2Iterations == 3
Stage2FloorSteps == 2

NoLast == [link |-> -1, pos |-> -1]

NoCall == [op |-> "none"]

Constructed(prob) ==
    /\ problem = prob
    /\ pc = "start"
    /\ currentState = EmptyState
    /\ bestState = EmptyState
    /\ minCost = Infinity
    /\ lastViolations = NoLast
    /\ attempt = 0
    /\ iter = 0
    /\ stage1Temp = 0
    /\ temperature = 0
    /\ feasibleFound = FALSE
    /\ feasibleState = EmptyState
    /\ bestViolationState = EmptyState
    /\ minViolationsFound = Infinity
    /\ stage1CurrentState = EmptyState
    /\ stage1CurrentCost = Infinity
    /\ currentFullCost = Infinity
    /\ result = NoResult
    /\ seen = [min |-> Infinity, initFailures |-> <<>>, minFull |-> Infinity, last |-> "none"]

Init == \E prob \in SolverProblems : Constructed(prob) /\ call = NoCall

-----------------------------------------------------------------------------
(* PortalSolver.solve *)

\* "Math.random() < p": with p = 1 the draw is always below, with 0 < p < 1
\* both outcomes can happen.
RandomBelow(pIsOne) == IF pIsOne THEN {TRUE} ELSE {TRUE, FALSE}

\* this.stage1AcceptWorseViolationProb = 0.1, in hundredths
stage1AcceptWorseViolationProb == 10

\* Values of Math.random(), in hundredths: a draw is in [0, 1)
Draws == {0, 5, 9, 10, 50, 99}

\* Values of Math.exp(-deltaCost / stage1Temp), in hundredths, for a positive
\* temperature: 1 for deltaCost = 0; for deltaCost > 0 a value below 1, which
\* is 0 when the quotient is large.  For deltaCost < 0 the code does not
\* evaluate it.
ExpNeg(deltaCost) == IF deltaCost > 0 THEN {0, 1, 50, 99} ELSE {100}

\* The standard annealing rule, without the base probability of a worse move.
Stage1AcceptsStandard(deltaCost, draw, e) == deltaCost < 0 \/ draw < e

\* acceptMove of Stage 1 for the draw of Math.random() and the value e of
\* Math.exp(-deltaCost / stage1Temp)
Stage1Accepts(deltaCost, draw, e) ==
    IF deltaCost < 0 THEN TRUE
    ELSE IF deltaCost = 0 THEN draw < e
    ELSE draw * 100 < stage1AcceptWorseViolationProb * e

\* The test "=== 0" of a weight-0 cost, as "<= 1" (a plausible slip).
IsZeroCostLoose(cost) == cost.hi = 0 /\ cost.lo <= 1

\* stage1CurrentCost === 0
IsZeroCost(cost) == cost = CostZero

\* The strict feasibility check of Stage 2, left out.
RejectedAsInfeasibleNever(neighborViolations) == FALSE

\* Stage 2: "if (neighborViolations > 0) continue"
RejectedAsInfeasible(neighborViolations) == CostLess(CostZero, neighborViolations)

\* The history of the run: the lowest weight-0 cost of the states that were the
\* current state of Stage 1, the attempts whose initializeState returned false,
\* the lowest full cost of the states that were the current state of Stage 2,
\* and how the last pass of an annealing loop went ("nogen": no neighbor was
\* generated; "infeasible": Stage 2 found the neighbor infeasible; "accepted";
\* "rejected")
Saw(cost) == [seen EXCEPT !.min = IF CostLess(cost, seen.min) THEN cost ELSE seen.min]

InitFailed(n) == [seen EXCEPT !.initFailures = Append(@, n)]

SawFull(cost) ==
    [seen EXCEPT !.minFull = IF CostLess(cost, seen.minFull) THEN cost ELSE seen.minFull]

\* The result of a failed first initialization, with the message of a Stage-1 failure.
InitFailedResultAsStage1 ==
    [NoResult EXCEPT !.returned = TRUE, !.solutionIsNull = TRUE, !.success = FALSE,
                     !.message = "Stage 1 Failed"]

InitFailedResult ==
    [NoResult EXCEPT !.returned = TRUE, !.solutionIsNull = TRUE, !.success = FALSE,
                     !.message = "Initialization failed (position constraints)."]

\* solve(), lines 33-44: the first initializeState and the first tracking values
SolveInit ==
    /\ pc = "start"
    /\ \E o \in initializeState(problem) :
         IF ~ o.ok
         THEN /\ result' = InitFailedResult
              /\ pc' = "done"
              /\ seen' = InitFailed(1)
              /\ UNCHANGED <<problem, currentState, bestState, minCost, lastViolations,
                             attempt, iter, stage1Temp, temperature, feasibleFound,
                             feasibleState, bestViolationState, minViolationsFound,
                             stage1CurrentState, stage1CurrentCost, currentFullCost,
                             call>>
         ELSE LET c == calculateCost(problem, copyState(o.state), 0)
              IN  /\ currentState' = o.state
                  /\ bestViolationState' = copyState(o.state)
                  /\ minViolationsFound' = c.cost
                  /\ lastViolations' = Last(c)
                  /\ attempt' = 1
                  /\ pc' = "s1_attempt"
                  /\ UNCHANGED <<problem, bestState, minCost, iter, stage1Temp, temperature,
                                 feasibleFound, feasibleState, stage1CurrentState,
                                 stage1CurrentCost, currentFullCost, result, seen, call>>

\* Where the attempt loop goes after "attempt++"
AfterAttempt(next) == IF next <= stage1MaxAttempts THEN "s1_attempt" ELSE "s1_outcome"

\* solve(), lines 61-83, for an attempt that starts from the state cs with the
\* tracking values bvs and mvf
AttemptBody(cs, bvs, mvf) ==
    LET start == copyState(cs)
        c == calculateCost(problem, start, 0)
        better == CostLess(c.cost, mvf)
    IN  /\ currentState' = cs
        /\ stage1CurrentState' = start
        /\ stage1CurrentCost' = c.cost
        /\ lastViolations' = Last(c)
        /\ minViolationsFound' = (IF better THEN c.cost ELSE mvf)
        /\ bestViolationState' = (IF better THEN copyState(start) ELSE bvs)
        /\ seen' = Saw(c.cost)
        /\ stage1Temp' = 0
        /\ iter' = 0
        /\ IF IsZeroCost(c.cost)
           THEN /\ feasibleFound' = TRUE
                /\ feasibleState' = start
                /\ pc' = "s1_outcome"
           ELSE /\ UNCHANGED <<feasibleFound, feasibleState>>
                /\ pc' = "s1_loop"
        /\ UNCHANGED attempt

\* solve(), lines 47-83: the head of one pass of the attempt loop
Stage1AttemptStart ==
    /\ pc = "s1_attempt"
    /\ attempt <= stage1MaxAttempts /\ ~ feasibleFound
    /\ IF attempt > 1
       THEN \E o \in initializeState(problem) :
              IF ~ o.ok
              THEN /\ attempt' = attempt + 1
                   /\ pc' = AfterAttempt(attempt + 1)
                   /\ seen' = InitFailed(attempt)
                   /\ UNCHANGED <<currentState, lastViolations, iter, stage1Temp,
                                  feasibleFound, feasibleState, bestViolationState,
                                  minViolationsFound, stage1CurrentState,
                                  stage1CurrentCost>>
              ELSE AttemptBody(o.state, copyState(o.state),
                               calculateCost(problem, copyState(o.state), 0).cost)
       ELSE AttemptBody(currentState, bestViolationState, minViolationsFound)
    /\ UNCHANGED <<problem, bestState, minCost, temperature, currentFullCost, result, call>>

\* A pass that leaves the temperature as it was.
CooledNot(coolings) == coolings

\* "stage1Temp *= stage1CoolingRate" and "temperature *= stage2CoolingRate":
\* one more cooling applied
Cooled(coolings) == coolings + 1

\* A skipped pass that does not advance the counter (the pass is retried).
AfterContinueRetries(i) == i

\* "continue" in an annealing loop: the counter after the loop's "i++"
AfterContinue(i) == i + 1

\* Where the Stage-1 loop goes after "i++"
AfterStage1Iteration(next) == IF next < Stage1Iterations THEN "s1_loop" ELSE "s1_attempt_end"

\* solve(), lines 86-155: one pass of the annealing loop of Stage 1
Stage1Iteration ==
    /\ pc = "s1_loop"
    /\ iter < Stage1Iterations
    /\ \E nb \in generateNeighbor(problem, stage1CurrentState, TRUE) :
         IF ~ nb.ok
         THEN /\ iter' = AfterContinue(iter)
              /\ pc' = AfterStage1Iteration(AfterContinue(iter))
              /\ seen' = [seen EXCEPT !.last = "nogen"]
              /\ UNCHANGED <<lastViolations, stage1Temp, feasibleFound, feasibleState,
                             bestViolationState, minViolationsFound, stage1CurrentState,
                             stage1CurrentCost>>
         ELSE LET c == calculateCost(problem, nb.state, 0)
                  deltaCost == c.cost.lo - stage1CurrentCost.lo
              IN  /\ lastViolations' = Last(c)
                  /\ \E acceptMove \in {Stage1Accepts(deltaCost, draw, e) :
                                            draw \in Draws, e \in ExpNeg(deltaCost)} :
                       IF acceptMove
                       THEN /\ stage1CurrentState' = nb.state
                            /\ stage1CurrentCost' = c.cost
                            /\ seen' = [Saw(c.cost) EXCEPT !.last = "accepted"]
                            /\ IF CostLess(c.cost, minViolationsFound)
                               THEN /\ minViolationsFound' = c.cost
                                    /\ bestViolationState' = copyState(nb.state)
                               ELSE UNCHANGED <<minViolationsFound, bestViolationState>>
                            /\ IF IsZeroCost(c.cost)
                               THEN /\ feasibleFound' = TRUE
                                    /\ feasibleState' = nb.state
                                    /\ pc' = "s1_attempt_end"
                                    /\ UNCHANGED <<iter, stage1Temp>>
                               ELSE /\ UNCHANGED <<feasibleFound, feasibleState>>
                                    /\ stage1Temp' = Cooled(stage1Temp)
                                    /\ IF Cooled(stage1Temp) >= Stage1FloorSteps
                                       THEN pc' = "s1_attempt_end" /\ UNCHANGED iter
                                       ELSE /\ iter' = iter + 1
                                            /\ pc' = AfterStage1Iteration(iter + 1)
                       ELSE /\ UNCHANGED <<stage1CurrentState, stage1CurrentCost,
                                           minViolationsFound, bestViolationState,
                                           feasibleFound, feasibleState>>
                            /\ seen' = [seen EXCEPT !.last = "rejected"]
                            /\ stage1Temp' = Cooled(stage1Temp)
                            /\ IF Cooled(stage1Temp) >= Stage1FloorSteps
                               THEN pc' = "s1_attempt_end" /\ UNCHANGED iter
                               ELSE /\ iter' = iter + 1
                                    /\ pc' = AfterStage1Iteration(iter + 1)
    /\ UNCHANGED <<problem, currentState, bestState, minCost, attempt, temperature,
                   currentFullCost, result, call>>

\* solve(), lines 157-174: the tail of one pass of the attempt loop
Stage1AttemptEnd ==
    /\ pc = "s1_attempt_end"
    /\ IF feasibleFound
       THEN /\ pc' = "s1_outcome"
            /\ UNCHANGED <<attempt, lastViolations, minViolationsFound, bestViolationState>>
       ELSE /\ attempt' = attempt + 1
            /\ pc' = AfterAttempt(attempt + 1)
            /\ IF attempt < stage1MaxAttempts
               THEN LET c == calculateCost(problem, stage1CurrentState, 0)
                    IN  /\ lastViolations' = Last(c)
                        /\ IF CostLess(c.cost, minViolationsFound)
                           THEN /\ minViolationsFound' = c.cost
                                /\ bestViolationState' = copyState(stage1CurrentState)
                           ELSE UNCHANGED <<minViolationsFound, bestViolationState>>
               ELSE UNCHANGED <<lastViolations, minViolationsFound, bestViolationState>>
    /\ UNCHANGED <<problem, currentState, bestState, minCost, iter, stage1Temp, temperature,
                   feasibleFound, feasibleState, stage1CurrentState, stage1CurrentCost,
                   currentFullCost, result, seen, call>>

\* solve(), lines 176-196: Stage 1 found no feasible state
Stage1Failed ==
    /\ pc = "s1_outcome"
    /\ ~ feasibleFound
    /\ result' = [verifySolution(problem, bestViolationState) EXCEPT
                     !.message = "Stage 1 Failed",
                     !.minViolations = minViolationsFound.lo,
                     !.success = FALSE]
    /\ problem' = WithPositions(problem, bestViolationState)
    /\ pc' = "done"
    /\ UNCHANGED <<currentState, bestState, minCost, lastViolations, attempt, iter,
                   stage1Temp, temperature, feasibleFound, feasibleState,
                   bestViolationState, minViolationsFound, stage1CurrentState,
                   stage1CurrentCost, currentFullCost, seen, call>>

\* Stage 2 started from this.currentState as Stage 1 left it (the state the
\* last attempt began with).
Stage2StartStateStale(feasible, current) == copyState(current)

\* this.currentState = this.copyState(feasibleState)
Stage2StartState(feasible, current) == copyState(feasible)

\* solve(), lines 198-213: Stage 2 starts from the feasible state
Stage2Start ==
    /\ pc = "s1_outcome"
    /\ feasibleFound
    /\ LET start == Stage2StartState(feasibleState, currentState)
           c == calculateCost(problem, start, 1)
       IN  /\ currentState' = start
           /\ currentFullCost' = c.cost
           /\ minCost' = c.cost
           /\ bestState' = copyState(start)
           /\ lastViolations' = Last(c)
           /\ seen' = SawFull(c.cost)
    /\ iter' = 0
    /\ temperature' = 0
    /\ pc' = "s2_loop"
    /\ UNCHANGED <<problem, attempt, stage1Temp, feasibleFound, feasibleState,
                   bestViolationState, minViolationsFound, stage1CurrentState,
                   stage1CurrentCost, result, call>>

\* Every accepted state recorded as the best one.
ImprovesBestAlways(full, best) == TRUE

\* Stage 2: "if (currentFullCost < this.minCost)"
ImprovesBest(full, best) == CostLess(full, best)

\* The Stage-2 loop without its iteration budget.
AfterStage2IterationNoBudget(next) == "s2_loop"

\* Where the Stage-2 loop goes after "iter++"
AfterStage2Iteration(next) == IF next < Stage2Iterations THEN "s2_loop" ELSE "s2_end"

\* solve(), lines 216-267: one pass of the annealing loop of Stage 2
Stage2Iteration ==
    /\ pc = "s2_loop"
    /\ iter < Stage2Iterations
    /\ \E nb \in generateNeighbor(problem, currentState, FALSE) :
         IF ~ nb.ok
         THEN /\ iter' = AfterContinue(iter)
              /\ pc' = AfterStage2Iteration(AfterContinue(iter))
              /\ seen' = [seen EXCEPT !.last = "nogen"]
              /\ UNCHANGED <<currentState, currentFullCost, minCost, bestState,
                             lastViolations, temperature>>
         ELSE LET v == calculateCost(problem, nb.state, 0)
                  full == calculateCost(problem, nb.state, 1)
              IN  IF RejectedAsInfeasible(v.cost)
                  THEN /\ lastViolations' = Last(v)
                       /\ iter' = iter + 1
                       /\ pc' = AfterStage2Iteration(iter + 1)
                       /\ seen' = [seen EXCEPT !.last = "infeasible"]
                       /\ UNCHANGED <<currentState, currentFullCost, minCost, bestState,
                                      temperature>>
                  ELSE /\ lastViolations' = Last(full)
                       /\ \E accept \in (IF CostLess(full.cost, currentFullCost)
                                         THEN {TRUE}
                                         ELSE RandomBelow(full.cost = currentFullCost)) :
                            IF accept
                            THEN /\ currentState' = nb.state
                                 /\ currentFullCost' = full.cost
                                 /\ seen' = [SawFull(full.cost) EXCEPT !.last = "accepted"]
                                 /\ IF ImprovesBest(full.cost, minCost)
                                    THEN /\ minCost' = full.cost
                                         /\ bestState' = copyState(nb.state)
                                    ELSE UNCHANGED <<minCost, bestState>>
                            ELSE /\ seen' = [seen EXCEPT !.last = "rejected"]
                                 /\ UNCHANGED <<currentState, currentFullCost, minCost,
                                                bestState>>
                       /\ temperature' = Cooled(temperature)
                       /\ IF Cooled(temperature) >= Stage2FloorSteps
                          THEN pc' = "s2_end" /\ UNCHANGED iter
                          ELSE /\ iter' = iter + 1
                               /\ pc' = AfterStage2Iteration(iter + 1)
    /\ UNCHANGED <<problem, attempt, stage1Temp, feasibleFound, feasibleState,
                   bestViolationState, minViolationsFound, stage1CurrentState,
                   stage1CurrentCost, result, call>>

\* solve(), lines 269-300: the best state is verified and returned
Finalize ==
    /\ pc = "s2_end"
    /\ LET finalResult == verifySolution(problem, bestState)
           c == calculateCost(problem, bestState, 0)
       IN  /\ lastViolations' = Last(c)
           /\ result' = IF CostLess(CostZero, c.cost)
                        THEN [finalResult EXCEPT !.success = FALSE,
                                                 !.message = "Internal Error",
                                                 !.minViolations = c.cost.lo]
                        ELSE IF finalResult.success
                        THEN [finalResult EXCEPT !.message = "Solution found and optimized."]
                        ELSE finalResult
    /\ problem' = WithPositions(problem, bestState)
    /\ pc' = "done"
    /\ UNCHANGED <<currentState, bestState, minCost, attempt, iter, stage1Temp, temperature,
                   feasibleFound, feasibleState, bestViolationState, minViolationsFound,
                   stage1CurrentState, stage1CurrentCost, currentFullCost, seen, call>>

Next ==
    \/ SolveInit
    \/ Stage1AttemptStart
    \/ Stage1Iteration
    \/ Stage1AttemptEnd
    \/ Stage1Failed
    \/ Stage2Start
    \/ Stage2Iteration
    \/ Finalize

Spec == Init /\ [][Next]_vars

\* solve() is one async function on the event loop: after each await (a
\* setTimeout of 0 or 5 ms) it is resumed, so a step that can be taken is taken.
\* The runs are those on the problems with two portals.
FairProblems == {HalfProblem, BlockedProblem}

FairInit == \E prob \in FairProblems : Constructed(prob) /\ call = NoCall

FairSpec == FairInit /\ [][Next]_vars /\ WF_vars(Next)

-----------------------------------------------------------------------------
(* Properties of solve() *)

\* The position rule stated on the regions themselves
PositionAllowed(prob, name, pos) ==
    /\ \E k \in DOMAIN prob.portals[name].constraints.inclusive :
           InBox(pos, prob.portals[name].constraints.inclusive[k])
    /\ \A k \in DOMAIN prob.portals[name].constraints.exclusive :
           ~ InBox(pos, prob.portals[name].constraints.exclusive[k])

AllPositionsAllowed(prob, state) ==
    \A name \in DOMAIN prob.portals :
        name \in DOMAIN state.at /\ PositionAllowed(prob, name, state.at[name])

AllLinksHold(prob, state) ==
    \A k \in DOMAIN prob.desiredLinks :
        checkActualLink(prob, prob.desiredLinks[k].source, prob.desiredLinks[k].dest, state)

\* C1: a result with success = true carries a solution in which every declared
\* link is valid and every portal's position is inside one of its inclusive
\* regions and outside all of its exclusive regions.
C1_SuccessHasNoViolation ==
    (result.returned /\ result.success) =>
        /\ ~ result.solutionIsNull
        /\ AllLinksHold(problem, result.solution)
        /\ AllPositionsAllowed(problem, result.solution)

\* C1 witness: solve() has returned success for a problem with links and with
\* an exclusive region.
C1_Witness ==
    /\ pc = "done" /\ result.returned /\ result.success
    /\ Len(problem.desiredLinks) > 0
    /\ \E n \in DOMAIN problem.portals : Len(problem.portals[n].constraints.exclusive) > 0

\* C2: in Stage 2 the current state (the feasible start and every accepted
\* neighbor) never violates a link.
C2_Stage2CurrentStateFeasible ==
    pc \in {"s2_loop", "s2_end"} => Len(ViolatedLinks(problem, currentState)) = 0

\* C2 witness: Stage 2 has accepted a neighbor, and some neighbor of the
\* current state violates a link.
C2_Witness ==
    /\ pc = "s2_loop"
    /\ currentState # feasibleState
    /\ \E nb \in generateNeighbor(problem, currentState, FALSE) :
           nb.ok /\ Len(ViolatedLinks(problem, nb.state)) > 0

\* The states of the run's state machine
Phase ==
    CASE pc = "start" -> "Init"
      [] pc \in {"s1_attempt", "s1_loop", "s1_attempt_end"} -> "Stage1Search"
      [] pc = "s1_outcome" -> IF feasibleFound THEN "Feasible" ELSE "Stage1Exhausted"
      [] pc \in {"s2_loop", "s2_end"} -> "Stage2Optimize"
      [] pc = "done" -> "Done"

ListedTransitions ==
    {<<"Init", "Stage1Search">>, <<"Stage1Search", "Feasible">>,
     <<"Stage1Search", "Stage1Exhausted">>, <<"Feasible", "Stage2Optimize">>,
     <<"Stage2Optimize", "Done">>, <<"Stage1Exhausted", "Done">>}

\* Stage 2 is entered (after the step) only with a zero-violation state from Stage 1
EntersStage2Feasible ==
    pc' \in {"s2_loop", "s2_end"} =>
        feasibleFound' /\ Len(ViolatedLinks(problem', feasibleState')) = 0

\* C3 as stated: the run moves only along the six listed transitions, and
\* Stage 2 is entered only with a zero-violation state from Stage 1.
C3_ListedTransitionsOnly ==
    [][/\ Phase' # Phase => <<Phase, Phase'>> \in ListedTransitions
       /\ EntersStage2Feasible]_vars

\* C3 amended: the run moves only along the six listed transitions or from
\* Init to Done (the first initialization failed, and the result says so);
\* Stage 2 is entered only with a zero-violation state from Stage 1.
C3_TransitionsWithInitFailure ==
    [][/\ Phase' # Phase => <<Phase, Phase'>> \in ListedTransitions \cup {<<"Init", "Done">>}
       /\ EntersStage2Feasible
       /\ (Phase = "Init" /\ Phase' = "Done") =>
              ~ result'.success /\ result'.message = InitFailedResult.message]_vars

\* C3 witness: a run that went through both stages and is done.
C3_Witness ==
    pc = "done" /\ feasibleFound /\ ~ result.solutionIsNull /\ bestState # EmptyState

WeightZeroCost(state) == calculateCost(problem, state, 0).cost

\* C4: when Stage 1 ends without a feasible state, the reported state has the
\* lowest violation count among all states that were the current state of any
\* Stage-1 attempt.
C4_BestEffortIsRunMinimum ==
    (pc = "done" /\ result.returned /\ ~ result.solutionIsNull /\ ~ feasibleFound) =>
        WeightZeroCost(result.solution) = seen.min

-----------------------------------------------------------------------------
(* Direct calls of initializeState and generateNeighbor on a constructed     *)
(* solver.  `call` records the arguments and the value returned.             *)

\* PORTAL B N X / POS B INC 0 60 0 0 60 0
\* PORTAL A O X / POS A INC 0 60 0 1 60 0 / POS A EXC 1 60 0 1 60 0
\* The first portal always finds its position; the second one finds none when
\* every draw is x = 1.
LateProblem ==
    [entitySize |-> 100,
     portalNames |-> <<"B", "A">>,
     portals |-> [n \in {"A", "B"} |->
         IF n = "A" THEN Portal("A", O_DIM, "X", <<Box(0, 60, 0, 1, 60, 0)>>,
                                <<Box(1, 60, 0, 1, 60, 0)>>)
                    ELSE Portal("B", N_DIM, "X", <<Box(0, 60, 0, 0, 60, 0)>>, <<>>)],
     desiredLinks |-> <<>>,
     optimizationPairs |-> <<>>]

CallProblems == SolverProblems \cup {LateProblem}

InitCalls == \E prob \in CallProblems : Constructed(prob) /\ call = NoCall

\* this.currentState when initializeState writes its local state before every
\* return.
CurrentStateAfterInitializeAlways(o, current) == o.state

\* this.currentState after initializeState: "this.currentState = initialState"
\* is reached only when every portal found a position
CurrentStateAfterInitialize(o, current) == IF o.ok THEN o.state ELSE current

\* this.initializeState()
CallInitializeState ==
    /\ \E o \in initializeState(problem) :
         /\ currentState' = CurrentStateAfterInitialize(o, currentState)
         /\ call' = [op |-> "initializeState", before |-> currentState, ret |-> o.ok,
                     initialState |-> o.state]
    /\ UNCHANGED <<problem, pc, bestState, minCost, lastViolations, attempt, iter,
                   stage1Temp, temperature, feasibleFound, feasibleState,
                   bestViolationState, minViolationsFound, stage1CurrentState,
                   stage1CurrentCost, currentFullCost, result, seen>>

\* this.generateNeighbor(this.currentState, isStage1)
CallGenerateNeighbor ==
    /\ currentState # EmptyState
    /\ \E isStage1 \in BOOLEAN :
         \E nb \in generateNeighbor(problem, currentState, isStage1) :
             call' = [op |-> "generateNeighbor", state |-> currentState,
                      isStage1 |-> isStage1, ret |-> nb]
    /\ UNCHANGED <<problem, solverVars>>

NextCalls == CallInitializeState \/ CallGenerateNeighbor

SpecCalls == InitCalls /\ [][NextCalls]_vars

\* C5: when initializeState returns true, the new current state has a position
\* for every portal, inside one of its inclusive regions and outside all of
\* its exclusive regions.
C5_InitializedStateAllowed ==
    (call.op = "initializeState" /\ call.ret) =>
        /\ currentState.keys = problem.portalNames
        /\ DOMAIN currentState.at = DOMAIN problem.portals
        /\ AllPositionsAllowed(problem, currentState)

\* C5 witness: initializeState returned true for a problem in which an
\* inclusive region overlaps an exclusive one.
C5_Witness ==
    /\ call.op = "initializeState" /\ call.ret
    /\ \E n \in DOMAIN problem.portals :
         \E pos \in RandomInclusivePos(problem.portals[n]) :
             InAnyExclusive(problem.portals[n], pos)

Changed(before, after) == {n \in DOMAIN before.at : after.at[n] # before.at[n]}

\* C6: a non-null output of generateNeighbor differs from the input state in
\* the position of exactly one portal.
C6_ExactlyOnePortalDiffers ==
    (call.op = "generateNeighbor" /\ call.ret.ok) =>
        /\ DOMAIN call.ret.state.at = DOMAIN call.state.at
        /\ Cardinality(Changed(call.state, call.ret.state)) = 1

-----------------------------------------------------------------------------
(* Direct calls of checkActualLink.  The predicate reads the dimensions, the *)
(* facings and the entity size of the problem and the positions of the      *)
(* state; the regions play no part, so the portals of these problems have   *)
(* one inclusive region that holds every position used.                     *)

Anywhere == <<Box(-1000, -1000, -1000, 1000, 1000, 1000)>>

\* PORTAL O1 O X / PORTAL N1 N X / LINK O1 N1 / LINK N1 O1: one portal per dimension
PairProblem ==
    [entitySize |-> 85,
     portalNames |-> <<"O1", "N1">>,
     portals |-> [n \in {"O1", "N1"} |->
         IF n = "O1" THEN Portal("O1", O_DIM, "X", Anywhere, <<>>)
                     ELSE Portal("N1", N_DIM, "X", Anywhere, <<>>)],
     desiredLinks |-> <<Link("O1", "N1"), Link("N1", "O1")>>,
     optimizationPairs |-> <<>>]

\* One source in O facing X with a wide entity (ENTITY_SIZE 16), two portals in N
TrioONN ==
    [entitySize |-> 1600,
     portalNames |-> <<"O1", "N1", "N2">>,
     portals |-> [n \in {"O1", "N1", "N2"} |->
         CASE n = "O1" -> Portal("O1", O_DIM, "X", Anywhere, <<>>)
           [] n = "N1" -> Portal("N1", N_DIM, "X", Anywhere, <<>>)
           [] n = "N2" -> Portal("N2", N_DIM, "Z", Anywhere, <<>>)],
     desiredLinks |-> <<Link("O1", "N1"), Link("O1", "N2")>>,
     optimizationPairs |-> <<>>]

\* One source in N facing Z (ENTITY_SIZE 0.85), two portals in O
TrioNOO ==
    [entitySize |-> 85,
     portalNames |-> <<"N1", "O1", "O2">>,
     portals |-> [n \in {"N1", "O1", "O2"} |->
         CASE n = "N1" -> Portal("N1", N_DIM, "Z", Anywhere, <<>>)
           [] n = "O1" -> Portal("O1", O_DIM, "X", Anywhere, <<>>)
           [] n = "O2" -> Portal("O2", O_DIM, "Z", Anywhere, <<>>)],
     desiredLinks |-> <<Link("N1", "O1"), Link("N1", "O2")>>,
     optimizationPairs |-> <<>>]

LinkProblems == {PairProblem, TrioONN, TrioNOO}

\* How far the two candidate portals of a trio are spread around the target block
GridRadius == 1

\* The orders in which a state can hold the names
KeyOrders(names) ==
    {order \in [1 .. Len(names) -> Range(names)] : Range(order) = Range(names)}

\* Positions of the pair: around the origin and at both sides of the edges of
\* the search squares (16 in N, 128 in O) of the target blocks
PairPositions(name) ==
    IF name = "N1"
    THEN {vec3(x, y, z) : x \in {-17, -16, 0, 16, 17}, y \in {60, 70}, z \in {-17, -16, 0, 16}}
    ELSE {vec3(x, 60, z) : x \in {-125, -124, 0, 132, 133}, z \in {-122, -121, 0, 128, 129}}

\* Positions of a candidate portal of a trio: a grid in x and y around `base`,
\* one step in z, the edge of the search square and one step beyond it
TrioPositions(base, radius) ==
    {addVec3(base, vec3(dx, dy, 0)) : dx \in -GridRadius .. GridRadius,
                                      dy \in -GridRadius .. GridRadius}
    \cup {addVec3(base, off) : off \in {vec3(0, 0, 1), vec3(3, 0, 0), vec3(radius, 0, 0),
                                        vec3(radius + 1, 0, 0)}}

\* The states checkActualLink is called with
LinkStates(prob) ==
    CASE prob = PairProblem ->
           {[keys |-> order, at |-> [n \in {"O1", "N1"} |-> IF n = "O1" THEN o ELSE nn]] :
               order \in KeyOrders(prob.portalNames),
               o \in PairPositions("O1"), nn \in PairPositions("N1")}
      [] prob = TrioONN ->
           {[keys |-> order,
             at |-> [n \in {"O1", "N1", "N2"} |->
                        CASE n = "O1" -> src [] n = "N1" -> c1 [] n = "N2" -> c2]] :
               order \in KeyOrders(prob.portalNames),
               src \in {vec3(0, 60, 0), vec3(7, 60, 7)},
               c1 \in TrioPositions(vec3(0, 60, 0), N_SEARCH_RADIUS),
               c2 \in TrioPositions(vec3(0, 60, 0), N_SEARCH_RADIUS)}
      [] prob = TrioNOO ->
           {[keys |-> order,
             at |-> [n \in {"N1", "O1", "O2"} |->
                        CASE n = "N1" -> src [] n = "O1" -> c1 [] n = "O2" -> c2]] :
               order \in KeyOrders(prob.portalNames),
               src \in {vec3(0, 60, 0)},
               c1 \in TrioPositions(vec3(4, 60, 4), O_SEARCH_RADIUS),
               c2 \in TrioPositions(vec3(4, 60, 4), O_SEARCH_RADIUS)}

\* this.checkActualLink(call.source, call.dest, call.state): the value returned,
\* and for each test position what the code computes for it
CallCheckActualLink ==
    /\ call.op = "pending"
    /\ LET testPositions ==
               getEntityTestPositions(call.state.at[call.source],
                                      problem.portals[call.source].face,
                                      problem.entitySize)
       IN  call' = [op |-> "checkActualLink", source |-> call.source,
                    dest |-> call.dest, state |-> call.state,
                    ret |-> checkActualLink(problem, call.source, call.dest, call.state),
                    testPositions |-> testPositions,
                    probes |-> [i \in DOMAIN testPositions |->
                                   ProbeOutcome(problem, call.dest, testPositions[i],
                                                call.state)]]
    /\ UNCHANGED <<problem, solverVars>>

\* A constructed solver and the arguments of one call: a declared link and a state
InitLink ==
    \E prob \in LinkProblems :
        /\ Constructed(prob)
        /\ \E k \in DOMAIN prob.desiredLinks :
             \E state \in LinkStates(prob) :
                 call = [op |-> "pending", source |-> prob.desiredLinks[k].source,
                         dest |-> prob.desiredLinks[k].dest, state |-> state]

SpecLink == InitLink /\ [][CallCheckActualLink]_vars


-----------------------------------------------------------------------------
(* Properties of checkActualLink *)

\* C7: for each probe with candidates, the selected portal is a candidate at
\* minimum squared distance from the target block, and no candidate at that
\* distance has a lower y, whatever the order of the names in the state.
C7_ClosestIsNearestThenLowest ==
    call.op = "checkActualLink" =>
        \A i \in DOMAIN call.probes :
            LET o == call.probes[i]
                at == call.state.at
            IN  Len(o.targets) > 0 =>
                    /\ o.closest \in Range(o.targets)
                    /\ \A c \in Range(o.targets) :
                           /\ distSq(o.Bd, at[o.closest]) <= distSq(o.Bd, at[c])
                           /\ distSq(o.Bd, at[o.closest]) = distSq(o.Bd, at[c])
                                  => at[o.closest].y <= at[c].y

\* C7 witness: two candidates at the same distance, the one visited first with
\* the higher y, and the one visited second selected.
C7_Witness ==
    /\ call.op = "checkActualLink"
    /\ \E i \in DOMAIN call.probes :
         LET o == call.probes[i]
             at == call.state.at
         IN  /\ Len(o.targets) = 2
             /\ distSq(o.Bd, at[o.targets[1]]) = distSq(o.Bd, at[o.targets[2]])
             /\ at[o.targets[1]].y > at[o.targets[2]].y
             /\ o.closest = o.targets[2]

\* C8: checkActualLink tests three probe points and returns true exactly when
\* each of them has a candidate and selects the declared destination.
C8_ValidIffAllProbesAgree ==
    call.op = "checkActualLink" =>
        /\ DOMAIN call.probes = 1 .. 3
        /\ call.ret <=> \A i \in 1 .. 3 :
                            /\ Len(call.probes[i].targets) > 0
                            /\ call.probes[i].closest = call.dest

\* C8 witness: the centre probe selects the destination, a later probe has no
\* candidate, and the link is invalid; the three target blocks differ.
C8_Witness ==
    /\ call.op = "checkActualLink"
    /\ call.probes[1].closest = call.dest
    /\ \E i \in {2, 3} : Len(call.probes[i].targets) = 0
    /\ ~ call.ret

BothAtOrigin(state) ==
    state.at["O1"] = vec3(0, 60, 0) /\ state.at["N1"] = vec3(0, 60, 0)

\* C10: with one portal per dimension a link is valid exactly when the
\* destination lies within the search radius of its dimension (16 in N, 128 in
\* O) of all three target blocks, in x and in z; with both portals at (0,60,0)
\* facing X the target blocks are (0,60,0) three times toward N and (4,60,4),
\* (4,60,7), (4,60,0) toward O, and both links are valid.
C10_PairValidIffWithinRadius ==
    (call.op = "checkActualLink" /\ problem = PairProblem) =>
        LET destPos == call.state.at[call.dest]
            radius == IF problem.portals[call.dest].dim = "N" THEN 16 ELSE 128
        IN  /\ call.ret <=> \A i \in 1 .. 3 :
                                /\ Abs(destPos.x - call.probes[i].Bd.x) <= radius
                                /\ Abs(destPos.z - call.probes[i].Bd.z) <= radius
            /\ BothAtOrigin(call.state) =>
                   /\ call.ret
                   /\ <<call.probes[1].Bd, call.probes[2].Bd, call.probes[3].Bd>> =
                          IF call.dest = "N1"
                          THEN <<vec3(0, 60, 0), vec3(0, 60, 0), vec3(0, 60, 0)>>
                          ELSE <<vec3(4, 60, 4), vec3(4, 60, 7), vec3(4, 60, 0)>>

\* C10 witness: both portals at (0,60,0) and the link toward O checked.
C10_Witness ==
    /\ call.op = "checkActualLink" /\ problem = PairProblem
    /\ BothAtOrigin(call.state)
    /\ call.dest = "O1"
    /\ call.ret

-----------------------------------------------------------------------------
(* Direct calls of calculateCost, on two solvers whose problems differ in    *)
(* their optimization goals only.                                            *)

\* The largest weight of a goal
MaxGoalWeight == 2

\* The OPTIMIZE and OPTIMIZE_POS lines of a problem: none, one goal toward a
\* position for a portal of O or of N, one goal between two portals, or two goals
GoalLists ==
    {<<>>}
    \cup {<<OptimizePos("O1", vec3(2, 60, 0), w)>> : w \in 1 .. MaxGoalWeight}
    \cup {<<OptimizePos("N1", vec3(10, 62, 3), w)>> : w \in 1 .. MaxGoalWeight}
    \cup {<<OptimizePair("O1", "N1", w)>> : w \in 1 .. MaxGoalWeight}
    \cup {<<OptimizePos("O1", vec3(2, 60, 0), 1), OptimizePair("O1", "N1", w)>> :
              w \in 1 .. MaxGoalWeight}

CostProblems == {[HubProblem EXCEPT !.optimizationPairs = goals] : goals \in GoalLists}

\* States of HubProblem; with O1 at x = 1 the state violates O1's exclusive region
CostStates ==
    {[keys |-> HubProblem.portalNames,
      at |-> [n \in {"O1", "N1", "N2"} |->
                 CASE n = "O1" -> o [] n = "N1" -> n1 [] n = "N2" -> n2]] :
        o \in RandomPosIn(Box(0, 60, 0, 2, 60, 0)),
        n1 \in RandomPosIn(Box(0, 60, 0, 1, 61, 0)),
        n2 \in {vec3(0, 60, 0), vec3(20, 60, 0)}}

\* this.calculateCost(call.state, call.weight), and the same call on a solver
\* constructed for call.other
CallCalculateCost ==
    /\ call.op = "pending"
    /\ LET c == calculateCost(problem, call.state, call.weight)
       IN  /\ lastViolations' = Last(c)
           /\ call' = [op |-> "calculateCost", state |-> call.state, weight |-> call.weight,
                       other |-> call.other, ret |-> c,
                       retOther |-> calculateCost(call.other, call.state, call.weight)]
    /\ UNCHANGED <<problem, pc, currentState, bestState, minCost, attempt, iter, stage1Temp,
                   temperature, feasibleFound, feasibleState, bestViolationState,
                   minViolationsFound, stage1CurrentState, stage1CurrentCost,
                   currentFullCost, result, seen>>

\* A constructed solver, a second problem with other goals, and the arguments of one call
InitCost ==
    \E prob \in CostProblems :
        /\ Constructed(prob)
        /\ \E other \in CostProblems :
             \E state \in CostStates :
                 \E weight \in {0, 1} :
                     call = [op |-> "pending", state |-> state, weight |-> weight,
                             other |-> other]

SpecCost == InitCost /\ [][CallCalculateCost]_vars

\* C11: calculateCost(state, 0) is the same whatever the goals of the problem
\* are: other goals, more goals, fewer goals or other weights.
C11_WeightZeroIgnoresGoals ==
    (call.op = "calculateCost" /\ call.weight = 0) => call.ret.cost = call.retOther.cost

\* C11 witness: a weight-0 call with a nonzero cost on two problems whose goals
\* give the state different full costs.
C11_Witness ==
    /\ call.op = "calculateCost" /\ call.weight = 0
    /\ call.ret.cost # CostZero
    /\ calculateCost(problem, call.state, 1).cost # calculateCost(call.other, call.state, 1).cost

\* The part of a full cost that is neither the link term nor the position term
OptimizationTerm(c) == c.cost.lo - c.posViolations * posPenalty

\* The squared distance in O coordinates from the portal of a goal to its target
GoalDistanceSq(prob, goal, state) ==
    LET p == state.at[goal.p1]
        x == IF prob.portals[goal.p1].dim = "N" THEN 8 * p.x ELSE p.x
        z == IF prob.portals[goal.p1].dim = "N" THEN 8 * p.z ELSE p.z
    IN  (x - goal.target.x) * (x - goal.target.x)
        + (p.y - goal.target.y) * (p.y - goal.target.y)
        + (z - goal.target.z) * (z - goal.target.z)

SinglePosGoal(prob) ==
    Len(prob.optimizationPairs) = 1 /\ prob.optimizationPairs[1].type = "position"

\* C12: with multiplier 1 and a single OPTIMIZE_POS goal, the goal adds weight
\* times the squared distance to the cost; the same goal with weight 2 adds
\* exactly twice what it adds with weight 1, and the violation terms are the same.
C12_GoalAddsWeightTimesDistance ==
    (call.op = "calculateCost" /\ call.weight = 1 /\ SinglePosGoal(problem)) =>
        LET g == problem.optimizationPairs[1]
        IN  /\ OptimizationTerm(call.ret) = g.weight * GoalDistanceSq(problem, g, call.state)
            /\ ( /\ SinglePosGoal(call.other)
                 /\ g.weight = 1
                 /\ call.other.optimizationPairs[1] = [g EXCEPT !.weight = 2] )
               => /\ OptimizationTerm(call.retOther) = 2 * OptimizationTerm(call.ret)
                  /\ call.retOther.cost.hi = call.ret.cost.hi
                  /\ call.retOther.linkViolations = call.ret.linkViolations
                  /\ call.retOther.posViolations = call.ret.posViolations

\* C12 witness: a goal of a portal of N with weight 1 and with weight 2, on a
\* state away from the target that violates a link and a position constraint.
C12_Witness ==
    /\ call.op = "calculateCost" /\ call.weight = 1
    /\ SinglePosGoal(problem) /\ SinglePosGoal(call.other)
    /\ problem.optimizationPairs[1].p1 = "N1"
    /\ problem.optimizationPairs[1].weight = 1
    /\ call.other.optimizationPairs[1] = [problem.optimizationPairs[1] EXCEPT !.weight = 2]
    /\ OptimizationTerm(call.ret) > 0
    /\ call.ret.linkViolations > 0 /\ call.ret.posViolations > 0

-----------------------------------------------------------------------------
(* Properties of solve(): failures *)

InitFailedMessage == "Initialization failed (position constraints)."

\* C13 as stated: once an initializeState of the run has returned false, no
\* iteration of Stage 1 or Stage 2 is executed, and the run ends with the
\* initialization-failed result.
C13_NoIterationAfterInitFailure ==
    Len(seen.initFailures) > 0 =>
        /\ pc \notin {"s1_loop", "s2_loop"}
        /\ pc = "done" => result.message = InitFailedMessage

\* C13 amended: when the first initializeState returns false the run ends at
\* once with the initialization-failed result and no iteration of either stage
\* has run; when the initializeState of a later attempt returns false, that
\* attempt alone is skipped.
C13_FirstInitFailureAborts ==
    /\ 1 \in Range(seen.initFailures) =>
           /\ pc = "done" /\ result.returned
           /\ ~ result.success /\ result.solutionIsNull
           /\ result.message = InitFailedMessage
           /\ stage1CurrentState = EmptyState /\ currentState = EmptyState
           /\ bestState = EmptyState /\ seen.min = Infinity
    /\ pc \in {"s1_loop", "s1_attempt_end"} => attempt \notin Range(seen.initFailures)
    /\ (pc = "done" /\ result.message = InitFailedMessage) => seen.initFailures = <<1>>

\* C13 witness: the first initializeState of a run on a problem with valid
\* positions returned false, and the run is over.
C13_Witness ==
    pc = "done" /\ seen.initFailures = <<1>> /\ problem = HubProblem

\* C14: every result solve() returns carries the position of every portal and
\* the lists of violated positions and violated links.
C14_EveryResultHasPositionsAndLists ==
    result.returned =>
        /\ ~ result.solutionIsNull
        /\ DOMAIN result.solution.at = DOMAIN problem.portals
        /\ result.hasLists

\* The number of desired links for which the link predicate is false
ViolatedLinkCount(prob, state) ==
    Cardinality({k \in DOMAIN prob.desiredLinks :
                    ~ checkActualLink(prob, prob.desiredLinks[k].source,
                                      prob.desiredLinks[k].dest, state)})

\* C15: the tracked minimum is the number of violated links of the tracked best
\* state; when Stage 1 ends without a feasible state solve() returns
\* success = false with that state as solution, its violated links listed, and
\* their number as the count of the message.
C15_Stage1FailureReportsBestEffort ==
    /\ bestViolationState # EmptyState =>
           minViolationsFound = Cost(0, ViolatedLinkCount(problem, bestViolationState))
    /\ (pc = "done" /\ ~ feasibleFound /\ seen.initFailures # <<1>>) =>
           /\ result.returned /\ ~ result.success /\ ~ result.solutionIsNull
           /\ result.message = "Stage 1 Failed"
           /\ result.solution = bestViolationState
           /\ result.minViolations = ViolatedLinkCount(problem, result.solution)
           /\ Len(result.violatedLinks) = result.minViolations
           /\ result.minViolations > 0

\* C15 witness: Stage 1 failed in every attempt and the best-effort state is
\* not the state the last attempt ended in.
C15_Witness ==
    /\ pc = "done" /\ ~ feasibleFound /\ ~ result.solutionIsNull
    /\ attempt > stage1MaxAttempts
    /\ result.solution # stage1CurrentState

\* C16: from the start of Stage 2 on the best state violates nothing; when
\* Stage 2 has completed the verifier's two lists are empty, the final weight-0
\* cost counts no violation, and the result is the success, never the internal error.
C16_Stage2BestStateFeasible ==
    /\ pc \in {"s2_loop", "s2_end"} =>
           /\ ViolatedLinkCount(problem, bestState) = 0
           /\ AllPositionsAllowed(problem, bestState)
    /\ (pc = "done" /\ feasibleFound) =>
           /\ result.returned /\ result.success
           /\ result.violatedPositions = <<>> /\ result.violatedLinks = <<>>
           /\ result.message = "Solution found and optimized."
           /\ result.solution = bestState
           /\ lastViolations = [link |-> 0, pos |-> 0]

\* C16 witness: Stage 2 completed with a best state other than the feasible
\* state it started from.
C16_Witness ==
    pc = "done" /\ feasibleFound /\ bestState # feasibleState

-----------------------------------------------------------------------------
(* Properties of the states of the annealer *)

\* The states the annealer holds, and the neighbors proposed to it
HandledStates ==
    ({currentState, stage1CurrentState, bestState, bestViolationState, feasibleState}
         \ {EmptyState})
    \cup (IF pc = "s1_loop"
          THEN {nb.state : nb \in {o \in generateNeighbor(problem, stage1CurrentState, TRUE) : o.ok}}
          ELSE {})
    \cup (IF pc = "s2_loop"
          THEN {nb.state : nb \in {o \in generateNeighbor(problem, currentState, FALSE) : o.ok}}
          ELSE {})

\* C20: every state the annealer handles (the initialized states and the
\* neighbors generated from them) violates no position constraint, and its
\* weight-0 cost is the number of links for which the link predicate is false.
C20_HandledStatesCountLinks ==
    \A state \in HandledStates :
        /\ AllPositionsAllowed(problem, state)
        /\ calculateCost(problem, state, 0).cost = Cost(0, ViolatedLinkCount(problem, state))

-----------------------------------------------------------------------------
(* Termination of solve() *)

\* Each loop of solve() has ended for one of its reasons
LoopsEndForAReason ==
    /\ attempt <= stage1MaxAttempts + 1
    /\ pc \in {"s1_loop", "s1_attempt_end"} => iter <= Stage1Iterations
    /\ pc = "s1_attempt_end" =>
           \/ feasibleFound
           \/ stage1Temp >= Stage1FloorSteps
           \/ iter = Stage1Iterations
    /\ pc \in {"s2_loop", "s2_end"} => iter <= Stage2Iterations
    /\ pc = "s2_end" => (temperature >= Stage2FloorSteps \/ iter = Stage2Iterations)

-----------------------------------------------------------------------------
(* parseProblem (js/utils.js).  A line is the sequence of its parts, the     *)
(* line split at white space.  The parser also keeps the list               *)
(* positionConstraints and, per portal, the names it links to; the solver   *)
(* reads neither and they are left out.                                      *)

\* Number(token), in halves, for the tokens that are numbers; for any other
\* token Number gives NaN
NumberTable ==
    "0" :> 0 @@ "0.5" :> 1 @@ "1" :> 2 @@ "2" :> 4 @@ "20" :> 40 @@ "60" :> 120

isNaN(token) == token \notin DOMAIN NumberTable

\* parseFloat(token), in hundredths, for the tokens it can read
ParseFloatTable == "0.85" :> 85 @@ "0" :> 0 @@ "2" :> 200

\* parts[0].toUpperCase()
toUpperCase(token) ==
    CASE token = "link" -> "LINK"
      [] token = "pos" -> "POS"
      [] OTHER -> token

EmptyProblem ==
    [entitySize |-> 100, portalNames |-> <<>>, portals |-> <<>>,
     desiredLinks |-> <<>>, optimizationPairs |-> <<>>]

Thrown(message) == [threw |-> TRUE, message |-> message, problem |-> EmptyProblem]

Parsed(prob) == [threw |-> FALSE, message |-> "", problem |-> prob]

\* case 'ENTITY_SIZE'
ParseEntitySize(prob, parts) ==
    IF Len(parts) # 2 \/ parts[2] \notin DOMAIN ParseFloatTable
    THEN Thrown("Invalid ENTITY_SIZE format")
    ELSE IF ParseFloatTable[parts[2]] <= 0
    THEN Thrown("ENTITY_SIZE must be positive")
    ELSE Parsed([prob EXCEPT !.entitySize = ParseFloatTable[parts[2]]])

\* case 'PORTAL'
ParsePortal(prob, parts) ==
    IF Len(parts) # 4 THEN Thrown("Invalid PORTAL format")
    ELSE IF parts[2] \in Range(prob.portalNames) THEN Thrown("Duplicate portal name")
    ELSE IF parts[3] # O_DIM /\ parts[3] # N_DIM THEN Thrown("Invalid dimension")
    ELSE IF parts[4] # "X" /\ parts[4] # "Z" THEN Thrown("Invalid facing")
    ELSE Parsed([prob EXCEPT
             !.portals = [n \in DOMAIN prob.portals \cup {parts[2]} |->
                             IF n = parts[2]
                             THEN Portal(parts[2], parts[3], parts[4], <<>>, <<>>)
                             ELSE prob.portals[n]],
             !.portalNames = Append(@, parts[2])])

\* The constraint of six numbers given in halves: over 1 when all are integers
ConstraintOf(c) ==
    IF \A k \in 1 .. 6 : c[k] % 2 = 0
    THEN Box(c[1] \div 2, c[2] \div 2, c[3] \div 2, c[4] \div 2, c[5] \div 2, c[6] \div 2)
    ELSE BoxOver(2, c[1], c[2], c[3], c[4], c[5], c[6])

\* case 'POS'
ParsePos(prob, parts) ==
    IF Len(parts) # 9 THEN Thrown("Invalid POS format")
    ELSE IF parts[2] \notin Range(prob.portalNames) THEN Thrown("Unknown portal in POS")
    ELSE IF toUpperCase(parts[3]) \notin {"INC", "EXC"} THEN Thrown("Invalid POS type")
    ELSE IF \E k \in 4 .. 9 : isNaN(parts[k]) THEN Thrown("Invalid coordinates in POS")
    ELSE LET coords == [k \in 1 .. 6 |-> NumberTable[parts[k + 3]]]
         IN  IF coords[1] > coords[4] \/ coords[2] > coords[5] \/ coords[3] > coords[6]
             THEN Thrown("Min coordinates must be <= Max coordinates")
             ELSE IF toUpperCase(parts[3]) = "INC"
             THEN Parsed([prob EXCEPT !.portals[parts[2]].constraints.inclusive =
                                           Append(@, ConstraintOf(coords))])
             ELSE Parsed([prob EXCEPT !.portals[parts[2]].constraints.exclusive =
                                           Append(@, ConstraintOf(coords))])

\* case 'LINK', with the test of the two dimensions left out.
ParseLinkNoDimensionCheck(prob, parts) ==
    IF Len(parts) # 3 THEN Thrown("Invalid LINK format")
    ELSE IF parts[2] \notin Range(prob.portalNames) THEN Thrown("Unknown source portal in LINK")
    ELSE IF parts[3] \notin Range(prob.portalNames) THEN Thrown("Unknown destination portal in LINK")
    ELSE Parsed([prob EXCEPT !.desiredLinks = Append(@, Link(parts[2], parts[3]))])

\* case 'LINK'
ParseLink(prob, parts) ==
    IF Len(parts) # 3 THEN Thrown("Invalid LINK format")
    ELSE IF parts[2] \notin Range(prob.portalNames) THEN Thrown("Unknown source portal in LINK")
    ELSE IF parts[3] \notin Range(prob.portalNames) THEN Thrown("Unknown destination portal in LINK")
    ELSE IF prob.portals[parts[2]].dim = prob.portals[parts[3]].dim
    THEN Thrown("must be in different dimensions")
    ELSE Parsed([prob EXCEPT !.desiredLinks = Append(@, Link(parts[2], parts[3]))])

\* case 'OPTIMIZE'; the weights of the lines used are whole numbers
ParseOptimize(prob, parts) ==
    IF Len(parts) # 3 /\ Len(parts) # 4 THEN Thrown("Invalid OPTIMIZE format")
    ELSE IF parts[2] \notin Range(prob.portalNames) THEN Thrown("Unknown portal in OPTIMIZE")
    ELSE IF parts[3] \notin Range(prob.portalNames) THEN Thrown("Unknown portal in OPTIMIZE")
    ELSE IF Len(parts) = 4 /\ (parts[4] \notin DOMAIN ParseFloatTable
                                \/ ParseFloatTable[parts[4]] < 0)
    THEN Thrown("Invalid or negative weight")
    ELSE Parsed([prob EXCEPT !.optimizationPairs =
                     Append(@, OptimizePair(parts[2], parts[3],
                                            IF Len(parts) = 4
                                            THEN ParseFloatTable[parts[4]] \div 100
                                            ELSE 1))])

\* case 'OPTIMIZE_POS'; the targets and weights of the lines used are whole numbers
ParseOptimizePos(prob, parts) ==
    IF Len(parts) # 5 /\ Len(parts) # 6 THEN Thrown("Invalid OPTIMIZE_POS format")
    ELSE IF parts[2] \notin Range(prob.portalNames) THEN Thrown("Unknown portal in OPTIMIZE_POS")
    ELSE IF \E k \in 3 .. Len(parts) : isNaN(parts[k])
    THEN Thrown("Invalid coordinates in OPTIMIZE_POS")
    ELSE IF Len(parts) = 6 /\ (parts[6] \notin DOMAIN ParseFloatTable
                                \/ ParseFloatTable[parts[6]] < 0)
    THEN Thrown("Invalid or negative weight")
    ELSE Parsed([prob EXCEPT !.optimizationPairs =
                     Append(@, OptimizePos(parts[2],
                                           vec3(NumberTable[parts[3]] \div 2,
                                                NumberTable[parts[4]] \div 2,
                                                NumberTable[parts[5]] \div 2),
                                           IF Len(parts) = 6
                                           THEN ParseFloatTable[parts[6]] \div 100
                                           ELSE 1))])

\* line.startsWith('#') || line === ''
IsSkipped(parts) == parts = <<>> \/ parts[1] = "#"

\* One pass of the loop over the lines: the switch on the command
ParseLine(prob, parts) ==
    IF IsSkipped(parts) THEN Parsed(prob)
    ELSE CASE toUpperCase(parts[1]) = "ENTITY_SIZE" -> ParseEntitySize(prob, parts)
           [] toUpperCase(parts[1]) = "PORTAL" -> ParsePortal(prob, parts)
           [] toUpperCase(parts[1]) = "POS" -> ParsePos(prob, parts)
           [] toUpperCase(parts[1]) = "LINK" -> ParseLink(prob, parts)
           [] toUpperCase(parts[1]) = "OPTIMIZE" -> ParseOptimize(prob, parts)
           [] toUpperCase(parts[1]) = "OPTIMIZE_POS" -> ParseOptimizePos(prob, parts)
           [] OTHER -> Thrown("Unknown command")

\* The final validation, left out.
FinalValidationSkipped(prob) == Parsed(prob)

\* The final validation: every portal has an inclusive constraint
FinalValidation(prob) ==
    IF \E n \in DOMAIN prob.portals : Len(prob.portals[n].constraints.inclusive) = 0
    THEN Thrown("has no inclusive position constraints")
    ELSE Parsed(prob)

-----------------------------------------------------------------------------
(* The click handler of the solve button (js/main.js) up to the call of      *)
(* solve(): it parses the text line by line, then either constructs the      *)
(* solver and starts it or reports the error.  The variable call holds the   *)
(* parser's locals and the handler's position.                               *)

MaxLines == 5

\* The lines a text is made of
Lines ==
    { <<"ENTITY_SIZE", "0.85">>,
      <<"ENTITY_SIZE", "0">>,
      <<"ENTITY_SIZE", "abc">>,
      <<"PORTAL", "A", "O", "X">>,
      <<"PORTAL", "B", "N", "Z">>,
      <<"PORTAL", "C", "O", "Z">>,
      <<"PORTAL", "D", "Q", "X">>,
      <<"POS", "A", "INC", "0", "60", "0", "0.5", "60", "0">>,
      <<"POS", "B", "INC", "0", "60", "0", "0", "60", "0">>,
      <<"POS", "C", "INC", "20", "60", "0", "20", "60", "0">>,
      <<"pos", "B", "EXC", "20", "60", "0", "20", "60", "0">>,
      <<"POS", "A", "INC", "2", "60", "0", "0", "60", "0">>,
      <<"POS", "A", "INC", "x", "60", "0", "0", "60", "0">>,
      <<"link", "A", "B">>,
      <<"LINK", "A", "C">>,
      <<"LINK", "A", "E">>,
      <<"OPTIMIZE", "A", "B", "2">>,
      <<"OPTIMIZE_POS", "A", "2", "60", "0">>,
      <<"FOO">>,
      <<"#">>,
      <<>> }

\* Nothing was handed to the caller
NoValue == <<>>

\* The handler is entered: no solver exists, the parser is before line 1
InitParse ==
    /\ problem = EmptyProblem
    /\ pc = "none"
    /\ currentState = EmptyState
    /\ bestState = EmptyState
    /\ minCost = Infinity
    /\ lastViolations = NoLast
    /\ attempt = 0
    /\ iter = 0
    /\ stage1Temp = 0
    /\ temperature = 0
    /\ feasibleFound = FALSE
    /\ feasibleState = EmptyState
    /\ bestViolationState = EmptyState
    /\ minViolationsFound = Infinity
    /\ stage1CurrentState = EmptyState
    /\ stage1CurrentCost = Infinity
    /\ currentFullCost = Infinity
    /\ result = NoResult
    /\ seen = [min |-> Infinity, initFailures |-> <<>>, minFull |-> Infinity, last |-> "none"]
    /\ call = [op |-> "parseProblem", status |-> "parsing", i |-> 0, line |-> <<>>,
               problem |-> EmptyProblem, message |-> "", value |-> NoValue]

\* parseProblem: one pass of the loop over the lines
ParseNextLine ==
    /\ call.op = "parseProblem" /\ call.status = "parsing"
    /\ call.i < MaxLines
    /\ \E parts \in Lines :
         LET r == ParseLine(call.problem, parts)
         IN  call' = IF r.threw
                     THEN [call EXCEPT !.status = "threw", !.i = @ + 1, !.line = parts,
                                       !.message = r.message]
                     ELSE [call EXCEPT !.i = @ + 1, !.line = parts,
                                       !.problem = r.problem]
    /\ UNCHANGED <<problem, solverVars>>

\* parseProblem: the text has no further line; final validation and return
ParseEnd ==
    /\ call.op = "parseProblem" /\ call.status = "parsing"
    /\ LET r == FinalValidation(call.problem)
       IN  call' = IF r.threw
                   THEN [call EXCEPT !.status = "threw", !.line = <<>>,
                                     !.message = r.message]
                   ELSE [call EXCEPT !.status = "returned", !.line = <<>>,
                                     !.value = <<r.problem>>]
    /\ UNCHANGED <<problem, solverVars>>

\* The handler after parseProblem returned: new PortalSolver(problem), solve()
HandlerSolve ==
    /\ call.op = "parseProblem" /\ call.status = "returned"
    /\ problem' = call.value[1]
    /\ pc' = "start"
    /\ call' = [call EXCEPT !.status = "solving"]
    /\ UNCHANGED <<currentState, bestState, minCost, lastViolations, attempt, iter,
                   stage1Temp, temperature, feasibleFound, feasibleState,
                   bestViolationState, minViolationsFound, stage1CurrentState,
                   stage1CurrentCost, currentFullCost, result, seen>>

\* The handler's catch block after parseProblem threw
HandlerCatch ==
    /\ call.op = "parseProblem" /\ call.status = "threw"
    /\ call' = [call EXCEPT !.status = "error"]
    /\ UNCHANGED <<problem, solverVars>>

NextParse == ParseNextLine \/ ParseEnd \/ HandlerSolve \/ HandlerCatch

SpecParse == InitParse /\ [][NextParse]_vars

\* The last line read is a LINK between two known portals of one dimension
SameDimensionLink ==
    /\ Len(call.line) = 3 /\ toUpperCase(call.line[1]) = "LINK"
    /\ call.line[2] \in DOMAIN call.problem.portals
    /\ call.line[3] \in DOMAIN call.problem.portals
    /\ call.problem.portals[call.line[2]].dim = call.problem.portals[call.line[3]].dim

\* Every desired link of the problem joins portals of different dimensions
LinksCrossDimensions(prob) ==
    \A k \in DOMAIN prob.desiredLinks :
        prob.portals[prob.desiredLinks[k].source].dim
            # prob.portals[prob.desiredLinks[k].dest].dim

\* C17: every problem parseProblem returns, and every problem a solver is
\* given, has only desired links whose source and destination are in
\* different dimensions; a LINK line naming two known portals of the same
\* dimension makes the parse throw.
C17_LinksCrossDimensions ==
    /\ call.status \in {"returned", "solving"} => LinksCrossDimensions(call.value[1])
    /\ pc # "none" => LinksCrossDimensions(problem)
    /\ SameDimensionLink => call.status \in {"threw", "error"}

C17_Witness ==
    /\ call.status = "error" /\ SameDimensionLink /\ pc = "none"
    /\ call.line = <<"LINK", "A", "C">>

\* min <= max on every axis
Ordered(box) ==
    box.min.x <= box.max.x /\ box.min.y <= box.max.y /\ box.min.z <= box.max.z

\* What the specification promises of a returned problem
WellFormed(prob) ==
    /\ \A n \in DOMAIN prob.portals :
         /\ Len(prob.portals[n].constraints.inclusive) >= 1
         /\ \A k \in DOMAIN prob.portals[n].constraints.inclusive :
              Ordered(prob.portals[n].constraints.inclusive[k])
         /\ \A k \in DOMAIN prob.portals[n].constraints.exclusive :
              Ordered(prob.portals[n].constraints.exclusive[k])
         /\ prob.portals[n].name = n
    /\ \A j, k \in DOMAIN prob.portalNames :
         prob.portalNames[j] = prob.portalNames[k] => j = k
    /\ Range(prob.portalNames) = DOMAIN prob.portals
    /\ prob.entitySize > 0

\* C18: parseProblem throws or returns a problem in which every portal has an
\* inclusive region, every region has min <= max on each axis, the portal
\* names are unique and the entity size is positive; when it throws nothing
\* is handed to the caller and the handler constructs and runs no solver.
C18_ThrowsOrReturnsWellFormed ==
    /\ call.status \in {"returned", "solving"} =>
           /\ call.value = <<call.problem>>
           /\ WellFormed(call.value[1])
    /\ call.status \in {"parsing", "threw", "error"} =>
           /\ call.value = NoValue
           /\ pc = "none"
           /\ problem = EmptyProblem
    /\ pc # "none" => call.status = "solving" /\ problem = call.value[1]

C18_Witness ==
    /\ call.status = "error" /\ pc = "none" /\ call.value = NoValue
    /\ call.line = <<>> /\ call.i >= 2
    /\ \E n \in DOMAIN call.problem.portals :
         Len(call.problem.portals[n].constraints.inclusive) >= 1

-----------------------------------------------------------------------------
(* The hand-over from Stage 1 to Stage 2 *)

\* C21: once a Stage-1 attempt's current state has zero violations (as the
\* attempt's initial state or by an accepted move) the run is flagged feasible,
\* no further Stage-1 iteration and no further attempt is executed, and Stage 2
\* starts from exactly that state, with the same position for every portal.
C21_FeasibleStopsStage1 ==
    /\ [] ((stage1CurrentState # EmptyState
               /\ WeightZeroCost(stage1CurrentState) = CostZero) => feasibleFound)
    /\ [] (feasibleFound =>
               /\ pc \in {"s1_attempt_end", "s1_outcome", "s2_loop", "s2_end", "done"}
               /\ feasibleState = stage1CurrentState
               /\ WeightZeroCost(feasibleState) = CostZero)
    /\ [][/\ feasibleFound =>
                 UNCHANGED <<attempt, stage1Temp, stage1CurrentState, stage1CurrentCost,
                             feasibleState, feasibleFound>>
          /\ (pc = "s1_outcome" /\ pc' = "s2_loop") =>
                 /\ DOMAIN currentState'.at = DOMAIN problem.portals
                 /\ \A n \in DOMAIN problem.portals :
                        currentState'.at[n] = feasibleState.at[n]]_vars

\* C21 witness: the second attempt reached a zero-violation state by an
\* accepted move after a cooling, and Stage 2 has started from it.
C21_Witness ==
    /\ pc = "s2_loop" /\ iter = 0 /\ feasibleFound
    /\ attempt = 2 /\ stage1Temp >= 1
    /\ currentState = feasibleState

FullCost(state) == calculateCost(problem, state, 1).cost

\* C22: throughout Stage 2 the recorded best cost never increases, equals the
\* full cost of the recorded best state and is never greater than the current
\* state's full cost; the solution returned after Stage 2 is the recorded best
\* state, and its full cost is the minimum over the Stage-1 feasible state and
\* all states accepted in Stage 2.
C22_BestCostIsRunningMinimum ==
    /\ [] (pc \in {"s2_loop", "s2_end"} =>
               /\ minCost = FullCost(bestState)
               /\ currentFullCost = FullCost(currentState)
               /\ ~ CostLess(currentFullCost, minCost)
               /\ minCost = seen.minFull)
    /\ [] ((pc = "done" /\ feasibleFound) =>
               /\ result.solution = bestState
               /\ FullCost(result.solution) = seen.minFull)
    /\ [][/\ pc \in {"s2_loop", "s2_end"} => ~ CostLess(minCost, minCost')]_vars

\* C22 witness: Stage 2 improved on the feasible state, then accepted a state
\* of higher full cost, and the run returned the recorded best state.
C22_Witness ==
    /\ pc = "done" /\ feasibleFound /\ result.returned
    /\ CostLess(minCost, FullCost(feasibleState))
    /\ CostLess(minCost, currentFullCost)

-----------------------------------------------------------------------------
(* The acceptance rule of Stage 1 on its own: the violation counts of the     *)
(* current state and of the neighbor, a draw and a value of the exponential. *)

MaxViolations == 3

InitAccept ==
    /\ Constructed(HubProblem)
    /\ \E current \in 0 .. MaxViolations, neighbor \in 0 .. MaxViolations :
         \E draw \in Draws, e \in ExpNeg(neighbor - current) :
             call = [op |-> "pending", current |-> current, neighbor |-> neighbor,
                     draw |-> draw, e |-> e]

CallStage1Accepts ==
    /\ call.op = "pending"
    /\ call' = [op |-> "stage1Accepts", current |-> call.current,
                neighbor |-> call.neighbor, draw |-> call.draw, e |-> call.e,
                ret |-> Stage1Accepts(call.neighbor - call.current, call.draw, call.e)]
    /\ UNCHANGED <<problem, solverVars>>

SpecAccept == InitAccept /\ [][CallStage1Accepts]_vars

\* C23: in Stage 1 a neighbor whose violation count is lower than or equal to
\* the current count is accepted for every draw; a neighbor whose count is
\* higher is accepted only when the draw is below
\* baseWorseAcceptProbability * exp(-delta / T), with the base probability 0.1.
C23_Stage1Acceptance ==
    call.op = "stage1Accepts" =>
        /\ call.neighbor <= call.current => call.ret
        /\ (call.neighbor > call.current /\ call.ret) =>
               call.draw * 100 < 10 * call.e

\* C23 witness: a neighbor with more violations was accepted on a draw above 0.
C23_Witness ==
    /\ call.op = "stage1Accepts"
    /\ call.neighbor > call.current /\ call.ret /\ call.draw > 0

-----------------------------------------------------------------------------
(* Cooling and skipped passes *)

\* C24 as stated: in Stage 1 the temperature is cooled on every pass of the
\* loop that does not end the loop, whether the move was accepted, rejected or
\* could not be generated.
C24_EveryPassCools ==
    [][/\ (pc = "s1_loop" /\ pc' = "s1_loop") => stage1Temp' = stage1Temp + 1]_vars

\* C24 amended: in Stage 1 the temperature is cooled on every pass in which a
\* neighbor was generated and which does not end the loop by reaching
\* feasibility, whether the move was accepted or rejected; a pass in which no
\* neighbor could be generated leaves the temperature unchanged.
C24_CoolsUnlessNoNeighbor ==
    [][/\ (pc = "s1_loop" /\ seen'.last \in {"accepted", "rejected"} /\ ~ feasibleFound')
              => stage1Temp' = stage1Temp + 1
       /\ (pc = "s1_loop" /\ seen'.last = "nogen") => stage1Temp' = stage1Temp]_vars

\* C24 witness: Stage 1 has made two passes, one cooled and one without a
\* neighbor, and goes on.
C24_Witness ==
    /\ pc = "s1_loop" /\ seen.last = "nogen"
    /\ iter = 2 /\ stage1Temp = 1

\* C25: a pass of either annealing loop in which generateNeighbor returned
\* null is a no-op: the current state and cost and the best state and cost
\* are unchanged, the counter advances by one, and the run goes on with the
\* loop or leaves it because the budget is used up; nothing is returned.
C25_NoNeighborPassIsSkipped ==
    [][/\ (pc \in {"s1_loop", "s2_loop"} /\ seen'.last = "nogen") =>
              /\ UNCHANGED <<stage1CurrentState, stage1CurrentCost, bestViolationState,
                             minViolationsFound, currentState, currentFullCost,
                             bestState, minCost, result, attempt>>
              /\ iter' = iter + 1
              /\ pc' = IF pc = "s1_loop"
                       THEN (IF iter' < Stage1Iterations THEN "s1_loop" ELSE "s1_attempt_end")
                       ELSE (IF iter' < Stage2Iterations THEN "s2_loop" ELSE "s2_end")]_vars

\* C25 witness: Stage 2 has skipped a pass and goes on.
C25_Witness ==
    /\ pc = "s2_loop" /\ seen.last = "nogen" /\ iter >= 1 /\ temperature = 0

-----------------------------------------------------------------------------
(* Properties of checkActualLink: candidates, probe points, target blocks *)

\* The portals the specification makes candidates of a probe with target block Bd
CandidatesOf(prob, dest, Bd, state) ==
    LET destDim == prob.portals[dest].dim
        radius == IF destDim = "N" THEN 16 ELSE 128
    IN  {n \in DOMAIN state.at :
            /\ prob.portals[n].dim = destDim
            /\ Abs(state.at[n].x - Bd.x) <= radius
            /\ Abs(state.at[n].z - Bd.z) <= radius}

\* C26: the candidates of a probe are exactly the portals of the destination
\* dimension whose x and z are each within that dimension's search radius (16
\* for N, 128 for O) of the target block, whatever their y; a portal of the
\* source's dimension is never a candidate and never selected.
C26_CandidatesAreDestinationPortalsInSquare ==
    call.op = "checkActualLink" =>
        \A i \in DOMAIN call.probes :
            LET o == call.probes[i]
                sourceDim == problem.portals[call.source].dim
            IN  /\ Range(o.targets) = CandidatesOf(problem, call.dest, o.Bd, call.state)
                /\ Len(o.targets) = Cardinality(Range(o.targets))
                /\ \A n \in DOMAIN call.state.at :
                       problem.portals[n].dim = sourceDim =>
                           n \notin Range(o.targets) /\ o.closest # n

\* C26 witness: two portals in the destination dimension, one a candidate (at
\* another height than the target block) and one outside the square, while the
\* source itself lies within the radius of the target block.
C26_Witness ==
    /\ call.op = "checkActualLink"
    /\ \E i \in DOMAIN call.probes :
         LET o == call.probes[i]
             destDim == problem.portals[call.dest].dim
         IN  /\ Len(o.targets) = 1
             /\ Cardinality({n \in DOMAIN call.state.at : problem.portals[n].dim = destDim}) = 2
             /\ call.state.at[o.targets[1]].y # o.Bd.y
             /\ InSearchArea(call.state.at[call.source], o.Bd, getSearchRadius(destDim))

\* The point (x + dx/200, y, z + dz/200) equals the fraction vector p
IsPoint(p, x, y, z, dx, dz) ==
    /\ p.x * 200 = p.d * (200 * x + dx)
    /\ p.y = p.d * y
    /\ p.z * 200 = p.d * (200 * z + dz)

\* C27: a link check uses exactly three probe points: the source position plus
\* (0.5, 0, 0.5), and that point shifted by +width/2 and by -width/2 along z
\* for a source facing X and along x for a source facing Z; the y of all three
\* is the source's y.
C27_ThreeProbesAcrossFacing ==
    call.op = "checkActualLink" =>
        LET s == call.state.at[call.source]
            w == problem.entitySize
            tp == call.testPositions
        IN  /\ Len(tp) = 3 /\ Len(call.probes) = 3
            /\ IsPoint(tp[1], s.x, s.y, s.z, 100, 100)
            /\ IF problem.portals[call.source].face = "X"
               THEN /\ IsPoint(tp[2], s.x, s.y, s.z, 100, 100 + w)
                    /\ IsPoint(tp[3], s.x, s.y, s.z, 100, 100 - w)
               ELSE /\ IsPoint(tp[2], s.x, s.y, s.z, 100 + w, 100)
                    /\ IsPoint(tp[3], s.x, s.y, s.z, 100 - w, 100)

\* C27 witness: a source facing Z whose three probes fall on target blocks
\* with three different x and the same z.
C27_Witness ==
    /\ call.op = "checkActualLink"
    /\ problem.portals[call.source].face = "Z"
    /\ Cardinality({call.probes[i].Bd.x : i \in 1 .. 3}) = 3
    /\ Cardinality({call.probes[i].Bd.z : i \in 1 .. 3}) = 1

\* b is the floor of (a * num) / (d * den)
IsFloorOf(b, a, num, d, den) ==
    b * (d * den) <= a * num /\ a * num < (b + 1) * (d * den)

\* C28: the target block of a probe is the probe with x and z multiplied by
\* 1/8 when the destination is in N and by 8 when it is in O, y unscaled, and
\* all three coordinates rounded toward minus infinity, also when negative.
C28_TargetBlockIsFlooredScaledProbe ==
    call.op = "checkActualLink" =>
        \A i \in DOMAIN call.probes :
            LET tp == call.testPositions[i]
                Bd == call.probes[i].Bd
                num == IF problem.portals[call.dest].dim = "N" THEN 1 ELSE 8
                den == IF problem.portals[call.dest].dim = "N" THEN 8 ELSE 1
            IN  /\ IsFloorOf(Bd.x, tp.x, num, tp.d, den)
                /\ IsFloorOf(Bd.y, tp.y, 1, tp.d, 1)
                /\ IsFloorOf(Bd.z, tp.z, num, tp.d, den)
                /\ Bd.y = call.state.at[call.source].y

\* C28 witness: toward N, a probe with a negative x that is not a whole number
\* after scaling.
C28_Witness ==
    /\ call.op = "checkActualLink"
    /\ problem.portals[call.dest].dim = "N"
    /\ \E i \in DOMAIN call.probes :
         LET tp == call.testPositions[i]
         IN  tp.x < 0 /\ tp.x % (tp.d * 8) # 0 /\ call.probes[i].Bd.x < -1

-----------------------------------------------------------------------------
(* The optimization term of the full cost *)

\* An operand of a goal in the frame of O: a portal of N has x and z times 8
InOverworldFrame(prob, name, state) ==
    IF prob.portals[name].dim = "N"
    THEN vec3(8 * state.at[name].x, state.at[name].y, 8 * state.at[name].z)
    ELSE state.at[name]

SquaredDistance(a, b) ==
    (a.x - b.x) * (a.x - b.x) + (a.y - b.y) * (a.y - b.y) + (a.z - b.z) * (a.z - b.z)

\* Weight times squared distance of the k-th goal
GoalTerm(prob, k, state) ==
    LET g == prob.optimizationPairs[k]
        a == InOverworldFrame(prob, g.p1, state)
        b == IF g.type = "position" THEN g.target ELSE InOverworldFrame(prob, g.p2, state)
    IN  g.weight * SquaredDistance(a, b)

\* C29: the squared distance of a goal is taken after a portal of N has its x
\* and z multiplied by 8 and its y left alone, portals of O and target points
\* being used as they are; the optimization term of the full cost is the sum
\* over the goals of weight times that squared distance.
C29_OptimizationTermIsWeightedSum ==
    (call.op = "calculateCost" /\ call.weight = 1) =>
        LET n == Len(problem.optimizationPairs)
        IN  OptimizationTerm(call.ret) =
                (IF n >= 1 THEN GoalTerm(problem, 1, call.state) ELSE 0)
                + (IF n >= 2 THEN GoalTerm(problem, 2, call.state) ELSE 0)

\* C29 witness: two goals, one toward a point and one between a portal of O
\* and a portal of N that is away from the origin in x and at another height.
C29_Witness ==
    /\ call.op = "calculateCost" /\ call.weight = 1
    /\ Len(problem.optimizationPairs) = 2
    /\ problem.optimizationPairs[2].type = "portal"
    /\ call.state.at["N1"].x = 1 /\ call.state.at["N1"].y = 61
    /\ GoalTerm(problem, 1, call.state) > 0
    /\ GoalTerm(problem, 2, call.state) > GoalTerm(problem, 1, call.state)

-----------------------------------------------------------------------------
(* generateNeighbor and the objects of a state.  A JS state holds references *)
(* to position objects; two states that hold the same object see each        *)
(* other's changes.  Here a heap is the sequence of the position objects     *)
(* created so far, an object is its index in the heap, and a state of        *)
(* references maps each name to an object.                                   *)

\* The state of positions a state of references stands for
Deref(heap, refs) ==
    [keys |-> refs.keys, at |-> [n \in DOMAIN refs.at |-> heap[refs.at[n]]]]

\* A state of positions as newly created objects on an empty heap
Allocated(state) ==
    [heap |-> [k \in 1 .. Len(state.keys) |-> state.at[state.keys[k]]],
     refs |-> [keys |-> state.keys,
               at |-> [n \in DOMAIN state.at |->
                          CHOOSE k \in 1 .. Len(state.keys) : state.keys[k] = n]]]

\* A copy that holds the objects of the state it copies: newState[name] = state[name]
copyStateShallow(heap, refs) == [heap |-> heap, refs |-> refs]

\* copyState: for each name, in order, copyVec3 creates one new object
copyStateOnHeap(heap, refs) ==
    [heap |-> heap \o [k \in 1 .. Len(refs.keys) |-> copyVec3(heap[refs.at[refs.keys[k]]])],
     refs |-> [keys |-> refs.keys,
               at |-> [n \in DOMAIN refs.at |->
                          Len(heap) + (CHOOSE k \in 1 .. Len(refs.keys) : refs.keys[k] = n)]]]

\* generateNeighbor on the heap: newState is a copy; the position of the
\* picked portal (vec3(...) of the large jump, addVec3(...) of the small
\* move) is one more new object that newState[portalName] is set to.  An
\* outcome is the heap after the call and the value returned.
generateNeighborOnHeap(prob, heap, refs, isStage1) ==
    LET copied == copyStateOnHeap(heap, refs)
    IN  UNION {{IF nb.ok
                THEN [ok |-> TRUE,
                      heap |-> Append(copied.heap, nb.state.at[prob.portalNames[k]]),
                      refs |-> [copied.refs EXCEPT !.at[prob.portalNames[k]] =
                                                       Len(copied.heap) + 1]]
                ELSE [ok |-> FALSE, heap |-> copied.heap, refs |-> EmptyState] :
                nb \in NeighborOf(prob, Deref(copied.heap, copied.refs), isStage1,
                                  prob.portalNames[k])} :
               k \in randomInt(1, Len(prob.portalNames))}

\* A constructed solver and the arguments of one call: a state that
\* initializeState can produce, and isStage1
InitHeap ==
    \E prob \in SolverProblems :
        /\ Constructed(prob)
        /\ \E o \in initializeState(prob) :
             /\ o.ok
             /\ \E isStage1 \in BOOLEAN :
                  call = [op |-> "pending", heap |-> Allocated(o.state).heap,
                          refs |-> Allocated(o.state).refs, isStage1 |-> isStage1]

\* this.generateNeighbor(state, isStage1), with the heap before and after
CallGenerateNeighborOnHeap ==
    /\ call.op = "pending"
    /\ \E r \in generateNeighborOnHeap(problem, call.heap, call.refs, call.isStage1) :
         call' = [op |-> "generateNeighbor", heap |-> call.heap, refs |-> call.refs,
                  isStage1 |-> call.isStage1, ret |-> r]
    /\ UNCHANGED <<problem, solverVars>>

SpecHeap == InitHeap /\ [][CallGenerateNeighborOnHeap]_vars

\* C30: generateNeighbor does not modify the state it is given: after the
\* call, whether a state or null is returned, every object of the input holds
\* the position it held before; a returned state holds no object of the input.
C30_NeighborLeavesInputAlone ==
    (call.op = "generateNeighbor" /\ "ret" \in DOMAIN call) =>
        /\ \A n \in DOMAIN call.refs.at :
               call.ret.heap[call.refs.at[n]] = call.heap[call.refs.at[n]]
        /\ Deref(call.ret.heap, call.refs) = Deref(call.heap, call.refs)
        /\ call.ret.ok =>
               /\ DOMAIN call.ret.refs.at = DOMAIN call.refs.at
               /\ \A n, m \in DOMAIN call.refs.at : call.ret.refs.at[n] # call.refs.at[m]

\* C30 witness: a state was returned in which one portal is at the position it
\* has in the input and another is not, for a call that can also return null.
C30_Witness ==
    /\ call.op = "generateNeighbor" /\ "ret" \in DOMAIN call
    /\ call.ret.ok
    /\ \E n \in DOMAIN call.refs.at :
         call.ret.heap[call.ret.refs.at[n]] = call.heap[call.refs.at[n]]
    /\ \E n \in DOMAIN call.refs.at :
         call.ret.heap[call.ret.refs.at[n]] # call.heap[call.refs.at[n]]
    /\ \E r \in generateNeighborOnHeap(problem, call.heap, call.refs, call.isStage1) : ~ r.ok

-----------------------------------------------------------------------------
(* The Problem during a run of solve                                         *)

\* C31: no step of a run of solve changes a field of the Problem, the
\* position field of the portal records included.  The two loops that follow
\* the verification write this.problem.portals[name].pos, so the statement
\* fails at the end of Stage 1 without a feasible state and at the end of
\* Stage 2.
C31_ProblemIsNeverWritten ==
    [][/\ problem' = problem]_vars

-----------------------------------------------------------------------------
(* The report of the link distances                                          *)

\* The entries of the report for the ordered pair <<p1, p2>>
EntriesOf(report, p1, p2) == {e \in report : e.p1 = p1 /\ e.p2 = p2}

\* b is the block of the center probe of the portal at pos, seen from the
\* dimension dim: x + 1/2 and z + 1/2 times 1/8 (toward N) or 8 (toward O),
\* y as it is, all rounded toward minus infinity
IsCenterTargetBlock(b, pos, dim) ==
    LET num == IF dim = "N" THEN 1 ELSE 8
        den == IF dim = "N" THEN 8 ELSE 1
    IN  /\ IsFloorOf(b.x, 2 * pos.x + 1, num, 2, den)
        /\ b.y = pos.y
        /\ IsFloorOf(b.z, 2 * pos.z + 1, num, 2, den)

\* C32: the report of a verified result has exactly one entry for every
\* ordered pair of distinct portals in different dimensions, a desired link or
\* not, and none for two portals of one dimension; the entry holds the squared
\* distance from the floored rescaled center probe of p1 to the position of p2.
C32_LinkDistancesCoverCrossDimensionPairs ==
    (pc = "done" /\ result.hasLists) =>
        /\ \A e \in result.linkDistances :
               e.p1 \in DOMAIN problem.portals /\ e.p2 \in DOMAIN problem.portals
        /\ \A p1 \in DOMAIN problem.portals : \A p2 \in DOMAIN problem.portals :
               IF p1 # p2 /\ problem.portals[p1].dim # problem.portals[p2].dim
               THEN /\ Cardinality(EntriesOf(result.linkDistances, p1, p2)) = 1
                    /\ \A e \in EntriesOf(result.linkDistances, p1, p2) :
                         /\ IsCenterTargetBlock(e.Bd, result.solution.at[p1],
                                                problem.portals[p2].dim)
                         /\ e.DestPos = result.solution.at[p2]
                         /\ e.distSq = SquaredDistance(e.Bd, e.DestPos)
               ELSE EntriesOf(result.linkDistances, p1, p2) = {}

\* C32 witness: a verified result for the problem with two portals in N and a
\* pair in different dimensions that is no desired link; four entries.
C32_Witness ==
    /\ pc = "done" /\ result.hasLists
    /\ \E p1 \in DOMAIN problem.portals : \E p2 \in DOMAIN problem.portals :
         p1 # p2 /\ problem.portals[p1].dim = problem.portals[p2].dim
    /\ \E e \in result.linkDistances :
         \A k \in DOMAIN problem.desiredLinks :
             problem.desiredLinks[k] # Link(e.p1, e.p2)
    /\ Cardinality(result.linkDistances) = 4

-----------------------------------------------------------------------------
(* initializeState that returns false                                        *)

\* C34: when initializeState returns false the current state of the solver is
\* the one it had before the call: no position drawn in the call is kept.
C34_FailedInitializationKeepsCurrentState ==
    (call.op = "initializeState" /\ ~ call.ret) => currentState = call.before

\* C34 witness: initializeState returned false after it had drawn a position
\* for an earlier portal, on a solver whose current state came from an earlier
\* call.
C34_Witness ==
    /\ call.op = "initializeState" /\ ~ call.ret
    /\ call.initialState # EmptyState
    /\ call.before # EmptyState
    /\ call.before.keys = problem.portalNames
    /\ currentState = call.before

-----------------------------------------------------------------------------
(* The click handler of the solve button (js/main.js) as a whole: the button *)
(* is disabled, the text is parsed, a solver is constructed and run, the     *)
(* result is written out, and the finally block enables the button again.    *)
(* The steps of solve() are the actions of Next; between any two of them the *)
(* page can deliver a click, unless the button is disabled.  The variable    *)
(* call holds the state of the button and of the handlers.                   *)

\* The texts of the input area: one that parses to HalfProblem, one that
\* parses to BlockedProblem and one with an unknown command
Texts ==
    { << <<"PORTAL", "A", "O", "X">>,
         <<"POS", "A", "INC", "0", "60", "0", "0.5", "60", "0">>,
         <<"PORTAL", "B", "N", "X">>,
         <<"POS", "B", "INC", "0", "60", "0", "0", "60", "0">>,
         <<"POS", "B", "INC", "20", "60", "0", "20", "60", "0">>,
         <<"LINK", "A", "B">> >>,
      << <<"PORTAL", "A", "O", "X">>,
         <<"POS", "A", "INC", "0", "60", "0", "0", "60", "0">>,
         <<"POS", "A", "EXC", "0", "60", "0", "0", "60", "0">>,
         <<"PORTAL", "B", "N", "X">>,
         <<"POS", "B", "INC", "0", "60", "0", "0", "60", "0">>,
         <<"LINK", "A", "B">> >>,
      << <<"PORTAL", "A", "O", "X">>,
         <<"FOO">> >> }

\* parseProblem: the loop over the lines from line i on, then the final
\* validation
RECURSIVE ParseFrom(_, _, _)
ParseFrom(prob, text, i) ==
    IF i > Len(text)
    THEN FinalValidation(prob)
    ELSE LET r == ParseLine(prob, text[i])
         IN  IF r.threw THEN r ELSE ParseFrom(r.problem, text, i + 1)

parseProblem(text) == ParseFrom(EmptyProblem, text, 1)

\* A handler that leaves the button enabled while it runs.
DisabledAtClickLeftEnabled == FALSE

\* "solveButton.disabled = true" at the head of the handler
DisabledAtClick == TRUE

\* The page is loaded: the button is enabled, no handler runs, no solver exists
InitUI ==
    /\ problem = EmptyProblem
    /\ pc = "none"
    /\ currentState = EmptyState
    /\ bestState = EmptyState
    /\ minCost = Infinity
    /\ lastViolations = NoLast
    /\ attempt = 0
    /\ iter = 0
    /\ stage1Temp = 0
    /\ temperature = 0
    /\ feasibleFound = FALSE
    /\ feasibleState = EmptyState
    /\ bestViolationState = EmptyState
    /\ minViolationsFound = Infinity
    /\ stage1CurrentState = EmptyState
    /\ stage1CurrentCost = Infinity
    /\ currentFullCost = Infinity
    /\ result = NoResult
    /\ seen = [min |-> Infinity, initFailures |-> <<>>, minFull |-> Infinity, last |-> "none"]
    /\ call = [op |-> "click", disabled |-> FALSE, running |-> 0, awaiting |-> FALSE,
               outcome |-> "none"]

\* A click on the button, which the page delivers only to an enabled button:
\* the handler up to "await solver.solve()", or through catch and finally when
\* parseProblem throws.  call.running counts the handlers between the head
\* of the handler and the end of their finally block; call.outcome is what
\* the page shows: nothing during a run, then how the handler ended.
Click ==
    /\ call.op = "click" /\ ~ call.disabled
    /\ \E text \in Texts :
         LET r == parseProblem(text)
         IN  IF r.threw
             THEN /\ call' = [call EXCEPT !.disabled = FALSE, !.outcome = "parse error"]
                  /\ UNCHANGED <<problem, solverVars>>
             ELSE /\ call' = [call EXCEPT !.disabled = DisabledAtClick,
                                          !.running = @ + 1, !.awaiting = TRUE,
                                          !.outcome = "none"]
                  /\ problem' = r.problem
                  /\ pc' = "start"
                  /\ currentState' = EmptyState
                  /\ bestState' = EmptyState
                  /\ minCost' = Infinity
                  /\ lastViolations' = NoLast
                  /\ attempt' = 0
                  /\ iter' = 0
                  /\ stage1Temp' = 0
                  /\ temperature' = 0
                  /\ feasibleFound' = FALSE
                  /\ feasibleState' = EmptyState
                  /\ bestViolationState' = EmptyState
                  /\ minViolationsFound' = Infinity
                  /\ stage1CurrentState' = EmptyState
                  /\ stage1CurrentCost' = Infinity
                  /\ currentFullCost' = Infinity
                  /\ result' = NoResult
                  /\ seen' = [min |-> Infinity, initFailures |-> <<>>,
                              minFull |-> Infinity, last |-> "none"]

\* The handler after solve() returned: the output is written, which throws
\* on a result without violatedPositions; catch; the finally block
HandlerResume ==
    /\ call.op = "click" /\ call.awaiting
    /\ pc = "done" /\ result.returned
    /\ call' = [call EXCEPT !.disabled = FALSE, !.running = @ - 1, !.awaiting = FALSE,
                            !.outcome = IF ~ result.success /\ ~ result.hasLists
                                        THEN "exception"
                                        ELSE IF result.success THEN "success"
                                                               ELSE "failure"]
    /\ UNCHANGED <<problem, solverVars>>

NextUI ==
    \/ Click
    \/ HandlerResume
    \/ SolveInit
    \/ Stage1AttemptStart
    \/ Stage1Iteration
    \/ Stage1AttemptEnd
    \/ Stage1Failed
    \/ Stage2Start
    \/ Stage2Iteration
    \/ Finalize

\* The page runs the continuation of every await; nobody has to click.
SpecUI == InitUI /\ [][NextUI]_vars /\ WF_vars(Next \/ HandlerResume)

\* C33: at most one handler is between its head and the end of its finally
\* block; while one is, and so at every step of solve(), the button is
\* disabled; and a disabled button is enabled again later, however the run
\* ends.
C33_OneRunAtATime ==
    /\ [](/\ call.running <= 1
          /\ (call.running = 1 \/ pc \notin {"none", "done"}) => call.disabled
          /\ call.running = 0 => ~ call.disabled)
    /\ (call.disabled ~> ~ call.disabled)

\* C33 witness: a run went through the passes of Stage 1 and is inside the
\* Stage-2 loop, past its first pass; its handler waits for it and the button
\* is disabled.
C33_Witness ==
    /\ call.op = "click" /\ call.awaiting /\ call.disabled /\ call.running = 1
    /\ pc = "s2_loop" /\ iter > 0

=============================================================================
